---- MODULE Spec2Model ----
(***************************************************************************)
(* Model of dcode (takahirom/dialog-code): the permission-prompt detector  *)
(* of cmd/dcode/app.go, the prompt state of internal/types and the         *)
(* deduplication ledger of internal/deduplication.                         *)
(*                                                                         *)
(* A terminal line is a sequence of tokens.  A token stands for a run of   *)
(* characters that the regular expressions and the strings.* calls of the  *)
(* source treat as a unit:                                                 *)
(*   "ESC[1m", "ESC[0m"  ANSI CSI sequences (\x1b[1m, \x1b[0m)             *)
(*   "BOX_V"             the vertical border glyph  (U+2502)               *)
(*   "BOX_TL" "BOX_TR"   the upper corners          (U+256D, U+256E)       *)
(*   "BOX_BL" "BOX_BR"   the lower corners          (U+2570, U+256F)       *)
(*   "BOX_H"             a run of horizontal border (U+2500)               *)
(*   "CURSOR"            the selection cursor       (U+276F)               *)
(*   "RESULT_MARK"       the command-result glyph   (U+23BF)               *)
(*   "RECORD_MARK"       the record glyph           (U+23FA)               *)
(*   "PAD"               a run of blanks inside a box                      *)
(*   "1." "2." "3."      digits followed by a period and a blank           *)
(* every other token is literal text.  Tokens of a line are separated by   *)
(* one blank.  Time is in milliseconds.                                    *)
(***************************************************************************)
EXTENDS Naturals, Integers, Sequences, FiniteSets, TLC

\* ------------------------------------------------------------------ bounds
MaxReads == 2
MaxTime == 6000
MaxWait == 1
MaxPrompts == 1
MaxDialogs == 2
MaxMarks == 2

\* the largest MaxEntries of a test configuration, and the calls made on it
MaxConfigEntries == 2
MaxMemoryMarks == 5

\* the most buttons a dialog is called with
MaxButtons == 4

\* the goroutines that use the ledger at once, and the rounds each one makes
NumGoroutines == 2
MaxOperations == 2

\* ------------------------------------------------------- program constants
ContextBufferSize == 20
ChoiceProcessingDelayMs == 300
AutoApproveDelayMs == 100
AutoRejectProcessDelayMs == 500
AutoRejectChoiceDelayMs == 500
AutoRejectCRDelayMs == 400
DialogResetDelayMs == 3000
PromptProcessingCooldownMs == 500
PromptDuplicationSeconds == 5
DialogCooldownMs == 500
MaxEntries == 1000

\* DefaultConfig(): the entries the ledger keeps before it cleans up
DefaultConfig == [MaxEntries |-> MaxEntries]

\* ------------------------------------------------------------- sequences
RECURSIVE SumSeq(_)
SumSeq(s) == IF s = <<>> THEN 0 ELSE Head(s) + SumSeq(Tail(s))

Contains(line, tok) == \E i \in 1..Len(line) : line[i] = tok

ContainsAny(line, toks) == \E i \in 1..Len(line) : line[i] \in toks

RECURSIVE TrimLeft(_, _)
TrimLeft(s, cut) ==
  IF s # <<>> /\ Head(s) \in cut THEN TrimLeft(Tail(s), cut) ELSE s

RECURSIVE TrimRight(_, _)
TrimRight(s, cut) ==
  IF s # <<>> /\ s[Len(s)] \in cut THEN TrimRight(SubSeq(s, 1, Len(s) - 1), cut) ELSE s

Trim(s, cut) == TrimRight(TrimLeft(s, cut), cut)

\* ---------------------------------------------------------------- tokens
AnsiTokens == {"ESC[1m", "ESC[0m"}

SpaceTokens == {"PAD"}

DigitTokens == {"1.", "2.", "3."}

\* byte length of a token in UTF-8 (the box glyphs take three bytes each)
TokLen(tok) ==
  CASE tok \in AnsiTokens -> 4
    [] tok \in {"BOX_V", "BOX_TL", "BOX_TR", "BOX_BL", "BOX_BR", "CURSOR", "RESULT_MARK",
                "RECORD_MARK"} -> 3
    [] tok = "BOX_H" -> 231
    [] tok = "PAD" -> 60
    [] tok \in DigitTokens -> 2
    [] tok = ">" -> 1
    [] tok = "Yes" -> 3
    [] tok = "No" -> 2
    [] tok = "Do you want to" -> 14
    [] tok = "proceed?" -> 8
    [] OTHER -> 30

\* strings.TrimSpace
TrimSpace(line) == Trim(line, SpaceTokens)

\* len(s) of a line whose tokens are joined by single blanks
ByteLen(line) ==
  IF line = <<>> THEN 0
  ELSE SumSeq([i \in 1..Len(line) |-> TokLen(line[i])]) + (Len(line) - 1)

\* --------------------------------------------------------- RegexPatterns
\* AnsiEscape.ReplaceAllString(s, "")
StripAnsi(s) == SelectSeq(s, LAMBDA tok : tok \notin AnsiTokens)

\* Permit = `Do you want to`
PermitMatch(line) == Contains(line, "Do you want to")

\* ChoiceAny = `[│\s]*[❯\s]*([0-9]+)\.\s+(.+?)(?:\s*│)?$` (not anchored at the
\* start): the leftmost digits-period-blank that is followed by some text
ChoiceAnyIndex(line) ==
  LET hits == {i \in 1..(Len(line) - 1) : line[i] \in DigitTokens}
  IN IF hits = {} THEN 0 ELSE CHOOSE i \in hits : \A j \in hits : i <= j

\* the digits of a digits-period token
NumOf(tok) == CASE tok = "1." -> "1" [] tok = "2." -> "2" [] tok = "3." -> "3"

\* the glyphs of the strings.TrimRight cut set of AddChoice
TrimRightGlyphs ==
  {"BOX_V", "PAD", "BOX_H", "BOX_TL", "BOX_TR", "BOX_BL", "BOX_BR", ">"}

\* ChoiceYes = `.*?([0-9]+)\.\s+(.*(Allow|Yes|Approve).*)` on a cleaned choice
AffirmativeTokens == {"Yes", "Yes, and don't ask again", "Allow", "Approve"}

\* the index tokens that a stored choice can start with
IndexTokens == DigitTokens \cup {"11."}

\* the index token of a key of the choice map: num + ". "
IndexTok(num) ==
  CASE num = "1" -> "1." [] num = "2" -> "2." [] num = "3" -> "3." [] num = "11" -> "11."

ChoiceYesMatch(text) ==
  \E i \in 1..Len(text) : \E j \in 1..Len(text) :
    i < j /\ text[i] \in IndexTokens /\ text[j] \in AffirmativeTokens


\* ------------------------------------------------------- terminal lines
OpenLine == <<"BOX_TL", "BOX_H", "BOX_TR">>

CloseLine == <<"BOX_BL", "BOX_H", "BOX_BR">>

PromptA == <<"BOX_V", "Do you want to", "proceed?", "PAD", "BOX_V">>

PromptAColor == <<"ESC[1m", "BOX_V", "Do you want to", "proceed?", "PAD", "BOX_V", "ESC[0m">>

PromptB == <<"BOX_V", "Do you want to", "make this edit to gradle.properties?", "PAD", "BOX_V">>

Choice1 == <<"BOX_V", "CURSOR", "1.", "Yes", "PAD", "BOX_V">>

Choice2 == <<"BOX_V", "PAD", "2.", "Yes, and don't ask again", "PAD", "BOX_V">>

Choice3 == <<"BOX_V", "PAD", "3.", "No, and tell Claude", "PAD", "BOX_V">>

EmptyBoxLine == <<"BOX_V", "PAD", "BOX_V">>

RejectedHeader == <<"BOX_V", ">", "Rejected command:", "PAD", "BOX_V">>

NoticeLine == <<"BOX_V", "The command was automatically rejected.", "PAD", "BOX_V">>

NoticeLine2 == <<"BOX_V", "them. Otherwise, try a different command.", "PAD", "BOX_V">>

PromptC == <<"Do you want to", "make this edit to DefaultFluffyByteIsPlayingAdapter.kt?">>

\* what one Read of the pty can deliver: a dialog box with two choices, the
\* same box in colour with three choices, the rejection notice of
\* TestAutoRejectLoopPrevention and the screen of TestDoYouWantWithInputBox
DialogBox2 == <<OpenLine, PromptA, Choice1, Choice2, CloseLine>>

DialogBox3 == <<OpenLine, PromptAColor, Choice1, Choice2, Choice3, CloseLine>>

RejectionNotice ==
  <<OpenLine, RejectedHeader, PromptB, EmptyBoxLine, NoticeLine, NoticeLine2, CloseLine>>

InputBoxScreen ==
  <<<<"RECORD_MARK", "Edit command rejected">>, <<"Rejected command:">>, PromptC, <<>>,
    <<"The command was automatically rejected.">>, <<>>,
    OpenLine, <<"BOX_V", ">", "PAD", "BOX_V">>, CloseLine,
    <<"PAD", "auto-accept edits on">>>>

Chunks == {DialogBox2, DialogBox3, RejectionNotice, InputBoxScreen}

\* a dialog box with another question and three choices
DialogBoxB == <<OpenLine, PromptB, Choice1, Choice2, Choice3, CloseLine>>

\* the text of TestNonDialogDoYouWantMessage: a question and no box
NonDialogText == SubSeq(InputBoxScreen, 1, 5)

\* a box that is opened and not closed: the redraw stops after the choices
OpenBox == <<OpenLine, PromptA, Choice1, Choice2>>

\* a numbered step of a plan, shown inside the box above the choices
PlanStep1 == <<"BOX_V", "PAD", "1.", "Update the tests", "PAD", "BOX_V">>

\* a box whose text has a numbered line of its own before the choices
PlanBox == <<OpenLine, PromptA, PlanStep1, Choice1, Choice2, CloseLine>>

\* what the child prints when boxes stay open or repeat an index
UnclosedChunks == {NonDialogText, OpenBox, DialogBox2, PlanBox}

\* two boxes that the child can print one soon after the other
OverlapChunks == {DialogBox2, DialogBoxB}

\* the advances of the clock between two steps
Steps == {2500}

\* the answers of the permission callback: a button index, or "" (no answer)
Responses == {"", "1"}

\* ------------------------------------------------------------------ state
VARIABLES
  now,            \* the clock (time.Now), in ms
  flags,          \* the command line: autoApprove, autoReject, autoRejectWait
  running,        \* App.Run: "reading", "eof" or "error"
  buffer,         \* lines of the last Read that processLine has not seen yet
  reads,          \* number of Reads done
  contextLines,   \* PermissionHandler.contextLines
  Prompt,         \* AppState.Prompt (types.PromptState)
  tasks,          \* the goroutines spawned by handleUserChoice
  writes,         \* the WriteString calls on the pty, in order, with their outcome
  cooldownStates, \* DeduplicationManager.cooldownStates
  processedPrompts, \* DeduplicationManager.processedPrompts
  resets,         \* wake-up times of the goroutines of handleDialogCooldown
  armed,          \* history: the times at which handleDialogCooldown ran
  dispatches,     \* history: the calls of handleUserChoice
  lastCheck,      \* history: the last call of AppState.ShouldProcessPrompt
  chunkLog,       \* history: the chunks read, each with Len(dispatches) before
                  \* it and the outcome of the check of its prompt line
  selection,      \* one call of GetBestChoice and findMaxRejectChoice
  osDialog,       \* one call of SimpleOSDialog.Show
  hook,           \* one run of handlePermissionRequestHook
  returned,       \* what App.Run has returned, once it has
  config,         \* the Config the DeduplicationManager was built with
  cleanup         \* the goroutine of periodicCleanup and the channels it selects on

vars == <<now, flags, running, buffer, reads, contextLines, Prompt, tasks, writes,
          cooldownStates, processedPrompts, resets, armed, dispatches, lastCheck,
          chunkLog, selection, osDialog, hook, returned, config, cleanup>>

\* the calls that the pipeline of App.Run does not touch
callVars == <<selection, osDialog, hook, returned, config, cleanup>>

\* a manager built with CleanupInterval = 0: no ticker and no goroutine
NoCleanup ==
  [pc |-> "none", mock |-> FALSE, pending |-> 0, stopped |-> FALSE,
   tickerClosed |-> FALSE, lastTick |-> -1, stopCleanup |-> "open", late |-> FALSE,
   duration |-> 0]

\* no call of GetBestChoice, Show or the hook has been made
NoSelection == [pc |-> "none", choices |-> <<>>, best |-> "", maxChoice |-> ""]

NoShow == [pc |-> "none", buttons |-> <<>>, defaultButton |-> "", given |-> <<>>,
           kind |-> "", failed |-> FALSE, output |-> <<>>, result |-> ""]

NoHook == [pc |-> "none"]

\* App.Run is still in its read loop
NotReturned == [done |-> FALSE, read |-> "", err |-> <<>>]

EmptyMap == [x \in {} |-> 0]

MapPut(m, k, v) == [x \in (DOMAIN m) \cup {k} |-> IF x = k THEN v ELSE m[x]]

MapDel(m, k) == [x \in (DOMAIN m) \ {k} |-> m[x]]

NoCheck == [called |-> FALSE]

\* types.NewAppState
NewPromptState ==
  [LastLine |-> <<>>, Started |-> FALSE, CollectedChoices |-> EmptyMap,
   Processed |-> EmptyMap, JustShown |-> FALSE, Cooldown |-> 0,
   Context |-> <<>>, TriggerLine |-> <<>>]

\* the state of App.Run and its handler after construction
InitPipeline ==
  /\ now = 0
  /\ running = "reading"
  /\ buffer = <<>>
  /\ reads = 0
  /\ contextLines = <<>>
  /\ Prompt = NewPromptState
  /\ tasks = <<>>
  /\ writes = <<>>
  /\ cooldownStates = EmptyMap
  /\ processedPrompts = EmptyMap
  /\ resets = <<>>
  /\ armed = <<>>
  /\ dispatches = <<>>
  /\ lastCheck = NoCheck
  /\ chunkLog = <<>>

NoFlags == [autoApprove |-> FALSE, autoReject |-> FALSE, autoRejectWait |-> 0]

Init ==
  /\ InitPipeline
  /\ flags \in [autoApprove : BOOLEAN, autoReject : BOOLEAN, autoRejectWait : 0..MaxWait]
  /\ selection = NoSelection
  /\ osDialog = NoShow
  /\ hook = NoHook /\ returned = NotReturned /\ config = DefaultConfig /\ cleanup = NoCleanup

\* ------------------------------------------------------ PermissionHandler
\* a shouldSkipLine without the test of the trimmed length
shouldSkipLineAnyLength(cleanLine) ==
  LET t == TrimSpace(cleanLine)
  IN \/ (t # <<>> /\ Head(t) \in {"+ added line", "- removed line"})
     \/ Contains(cleanLine, "RESULT_MARK")
     \/ Contains(cleanLine, "CHECKED")
     \/ Contains(cleanLine, "Context:")

shouldSkipLine(cleanLine) ==
  LET t == TrimSpace(cleanLine)
  IN \/ (t # <<>> /\ Head(t) \in {"+ added line", "- removed line"})
     \/ Contains(cleanLine, "RESULT_MARK")
     \/ Contains(cleanLine, "CHECKED")
     \/ Contains(cleanLine, "Context:")
     \/ ByteLen(t) <= 10

\* the context buffer after processLine has seen cleanLine
CollectContext(ctx, cleanLine) ==
  IF ByteLen(TrimSpace(cleanLine)) > 0 /\ (cleanLine = <<>> \/ Head(cleanLine) # "[DEBUG]")
  THEN LET c == Append(ctx, cleanLine)
       IN IF Len(c) > ContextBufferSize THEN Tail(c) ELSE c
  ELSE ctx

\* the identifier of a prompt: the last three context lines, the stripped
\* line and the clock
ContextIdentifier(ctx, line, t) ==
  <<SubSeq(ctx, IF Len(ctx) > 3 THEN Len(ctx) - 2 ELSE 1, Len(ctx)), StripAnsi(line), t>>

\* a ShouldProcessPrompt that forgets what it has processed
ShouldProcessPromptAlways(P, prompt, t) ==
  [ok |-> TRUE, Processed |-> MapPut(P.Processed, StripAnsi(prompt), t)]

\* a ShouldProcessPrompt that keys the Processed map by the raw line
ShouldProcessPromptRaw(P, prompt, t) ==
  LET recent == prompt \in DOMAIN P.Processed
                  /\ t - P.Processed[prompt] < PromptDuplicationSeconds * 1000
  IN IF recent THEN [ok |-> FALSE, Processed |-> P.Processed]
     ELSE [ok |-> TRUE, Processed |-> MapPut(P.Processed, prompt, t)]

\* AppState.ShouldProcessPrompt: the result and the Processed map it leaves
ShouldProcessPromptResult(P, prompt, t) ==
  LET cleanPrompt == StripAnsi(prompt)
      recent == cleanPrompt \in DOMAIN P.Processed
                  /\ t - P.Processed[cleanPrompt] < PromptDuplicationSeconds * 1000
      kept == IF cleanPrompt \in DOMAIN P.Processed /\ ~recent
              THEN MapDel(P.Processed, cleanPrompt) ELSE P.Processed
  IN IF recent THEN [ok |-> FALSE, Processed |-> kept]
     ELSE IF P.JustShown /\ t - P.Cooldown < PromptProcessingCooldownMs
          THEN [ok |-> FALSE, Processed |-> kept]
          ELSE [ok |-> TRUE, Processed |-> MapPut(kept, cleanPrompt, t)]

\* a StartPromptCollectionWithContext that keeps the choices collected so far
StartPromptCollectionKeepsChoices(P, line, id, ctx) ==
  [P EXCEPT !.LastLine = id, !.Started = TRUE, !.TriggerLine = line, !.Context = ctx]

\* AppState.StartPromptCollectionWithContext
StartPromptCollectionWithContext(P, line, id, ctx) ==
  [P EXCEPT !.LastLine = id, !.Started = TRUE, !.CollectedChoices = EmptyMap,
            !.TriggerLine = line, !.Context = ctx]

\* an AddChoice that stores the text of the choice as matched, border and all
AddChoiceUntrimmed(P, choiceLine) ==
  LET cleanLine == StripAnsi(choiceLine)
      i == ChoiceAnyIndex(cleanLine)
  IN IF ~P.Started \/ i = 0 THEN P.CollectedChoices
     ELSE MapPut(P.CollectedChoices, NumOf(cleanLine[i]),
                 <<cleanLine[i]>> \o SubSeq(cleanLine, i + 1, Len(cleanLine)))

\* an AddChoice that keeps the first text seen for an index
AddChoiceFirstWins(P, choiceLine) ==
  LET cleanLine == StripAnsi(choiceLine)
      i == ChoiceAnyIndex(cleanLine)
  IN IF ~P.Started \/ i = 0 \/ NumOf(cleanLine[i]) \in DOMAIN P.CollectedChoices
     THEN P.CollectedChoices
     ELSE LET raw == SubSeq(cleanLine, i + 1, Len(cleanLine))
              choiceText == TrimSpace(TrimRight(Trim(raw, {"BOX_V", "PAD"}), TrimRightGlyphs))
          IN MapPut(P.CollectedChoices, NumOf(cleanLine[i]), <<cleanLine[i]>> \o choiceText)

\* AppState.AddChoice: the choice map after the line; the value stored is
\* num + ". " + the trimmed text
AddChoice(P, choiceLine) ==
  LET cleanLine == StripAnsi(choiceLine)
      i == ChoiceAnyIndex(cleanLine)
  IN IF ~P.Started \/ i = 0 THEN P.CollectedChoices
     ELSE LET raw == SubSeq(cleanLine, i + 1, Len(cleanLine))
              choiceText == TrimSpace(TrimRight(Trim(raw, {"BOX_V", "PAD"}), TrimRightGlyphs))
          IN MapPut(P.CollectedChoices, NumOf(cleanLine[i]), <<cleanLine[i]>> \o choiceText)

\* the numbers of the fallback loop of GetBestChoice, as strings
FallbackNums == <<"1", "2", "3", "4", "5", "6", "7", "8", "9", "10">>

\* a GetBestChoice that looks for "Add a new rule" before the affirmative
\* choices
GetBestChoiceRuleFirst(choices) ==
  LET yes == {n \in DOMAIN choices : ChoiceYesMatch(choices[n])}
      rule == {n \in DOMAIN choices : Contains(choices[n], "Add a new rule")}
      nums == FallbackNums
      present == {k \in 1..Len(nums) : nums[k] \in DOMAIN choices}
  IN IF rule # {} THEN rule
     ELSE IF yes # {} THEN yes
     ELSE IF present # {} THEN {nums[CHOOSE k \in present : \A j \in present : k <= j]}
     ELSE {"1"}

\* choice.GetBestChoice: the indices it can return (the first two loops range
\* over a Go map, whose iteration order is not fixed)
GetBestChoice(choices) ==
  LET yes == {n \in DOMAIN choices : ChoiceYesMatch(choices[n])}
      rule == {n \in DOMAIN choices : Contains(choices[n], "Add a new rule")}
      nums == FallbackNums
      present == {k \in 1..Len(nums) : nums[k] \in DOMAIN choices}
  IN IF yes # {} THEN yes
     ELSE IF rule # {} THEN rule
     ELSE IF present # {} THEN {nums[CHOOSE k \in present : \A j \in present : k <= j]}
     ELSE {"1"}

\* a findMaxRejectChoice that tries index 2 before index 3
findMaxRejectChoiceTwoFirst(choices) ==
  IF "2" \in DOMAIN choices THEN "2"
  ELSE IF "3" \in DOMAIN choices THEN "3"
  ELSE "2"

\* findMaxRejectChoice, and the same loop at the head of sendAutoReject
findMaxRejectChoice(choices) ==
  IF "3" \in DOMAIN choices THEN "3"
  ELSE IF "2" \in DOMAIN choices THEN "2"
  ELSE "2"

\* a handleUserChoice that tests autoReject before autoApprove
ModeOfRejectFirst(f) ==
  IF f.autoReject THEN "reject"
  ELSE IF f.autoApprove THEN "approve"
  ELSE IF f.autoRejectWait > 0 THEN "wait"
  ELSE "dialog"

\* handleUserChoice: which of the four senders runs
ModeOf(f) ==
  IF f.autoApprove THEN "approve"
  ELSE IF f.autoReject THEN "reject"
  ELSE IF f.autoRejectWait > 0 THEN "wait"
  ELSE "dialog"

\* the goroutine that handleUserChoice starts at time t
NewTask(kind, bestChoice, choices, t) ==
  [kind |-> kind,
   pc |-> CASE kind = "approve" -> "sleep"
            [] kind = "reject" -> "sleep"
            [] kind = "wait" -> "start"
            [] kind = "dialog" -> "show",
   wake |-> CASE kind = "approve" -> t + AutoApproveDelayMs
              [] kind = "reject" -> t + AutoRejectProcessDelayMs
              [] OTHER -> t,
   choice |-> IF kind \in {"reject", "wait"} THEN findMaxRejectChoice(choices) ELSE bestChoice,
   dpc |-> "none", resp |-> "", chan |-> <<>>, got |-> "", closes |-> 0,
   shown |-> FALSE, buttons |-> <<>>, failed |-> FALSE, branch |-> "none",
   late |-> FALSE, writing |-> FALSE, message |-> <<>>, clicked |-> <<>>]

handleUserChoice(bestChoice, choices, t) ==
  /\ tasks' = Append(tasks, NewTask(ModeOf(flags), bestChoice, choices, t))
  /\ dispatches' = Append(dispatches,
        [mode |-> ModeOf(flags), best |-> bestChoice, choices |-> choices,
         trigger |-> Prompt.TriggerLine, context |-> Prompt.Context])

\* App.Run: one Read of the pty delivers a chunk of complete lines
ReadChunkOf(chunks, max) ==
  /\ running = "reading"
  /\ buffer = <<>>
  /\ reads < max
  /\ \E c \in chunks :
       /\ buffer' = c
       /\ chunkLog' = Append(chunkLog, [chunk |-> c, before |-> Len(dispatches),
                                      checked |-> FALSE, ok |-> FALSE, at |-> 0,
                                      text |-> <<>>])
  /\ reads' = reads + 1
  /\ UNCHANGED <<now, flags, running, contextLines, Prompt, tasks, writes,
                 cooldownStates, processedPrompts, resets, armed,
                 dispatches, lastCheck, callVars>>

ReadChunk(max) == ReadChunkOf(Chunks, max)

RunRead == ReadChunk(MaxReads)

\* the same Read while the child prints at most MaxPrompts chunks
RunReadPrompt == ReadChunk(MaxPrompts)

\* the errors that ptmx.Read reports: io.EOF, or an input/output error
ReadErrors == {"EOF", "EIO"}

\* a Run that returns nil whatever Read reported
RunEndSwallowsError ==
  /\ running = "reading"
  /\ buffer = <<>>
  /\ \E err \in ReadErrors :
       /\ running' = IF err = "EOF" THEN "eof" ELSE "error"
       /\ returned' = [done |-> TRUE, read |-> err, err |-> <<>>]
  /\ UNCHANGED <<now, flags, buffer, reads, contextLines, Prompt, tasks, writes,
                 cooldownStates, processedPrompts, resets, armed,
                 dispatches, lastCheck, chunkLog, selection, osDialog, hook, config, cleanup>>

\* App.Run: Read reports io.EOF (the loop ends, Run returns nil) or another
\* error (Run returns it, wrapped)
RunEnd ==
  /\ running = "reading"
  /\ buffer = <<>>
  /\ \E err \in ReadErrors :
       /\ running' = IF err = "EOF" THEN "eof" ELSE "error"
       /\ returned' = [done |-> TRUE, read |-> err,
                       err |-> IF err = "EOF" THEN <<>>
                               ELSE <<"PTY read error:", err>>]
  /\ UNCHANGED <<now, flags, buffer, reads, contextLines, Prompt, tasks, writes,
                 cooldownStates, processedPrompts, resets, armed,
                 dispatches, lastCheck, chunkLog, selection, osDialog, hook, config, cleanup>>

\* a processLine that abandons the open collection when it suppresses a
\* candidate
ProcessPromptLineResets(line, ctx) ==
  LET id == ContextIdentifier(ctx, line, now)
      r == ShouldProcessPromptResult(Prompt, line, now)
  IN /\ IF id # Prompt.LastLine
        THEN /\ lastCheck' = [called |-> TRUE, text |-> StripAnsi(line), time |-> now,
                              ok |-> r.ok, before |-> Prompt]
             /\ chunkLog' = [chunkLog EXCEPT ![Len(chunkLog)] =
                                [@ EXCEPT !.checked = TRUE, !.ok = r.ok, !.at = now,
                                          !.text = StripAnsi(line)]]
             /\ Prompt' = IF r.ok
                          THEN StartPromptCollectionWithContext(
                                 [Prompt EXCEPT !.Processed = r.Processed], line, id, ctx)
                          ELSE [Prompt EXCEPT !.Processed = r.Processed, !.Started = FALSE,
                                              !.CollectedChoices = EmptyMap]
        ELSE /\ lastCheck' = NoCheck
             /\ UNCHANGED <<Prompt, chunkLog>>
     /\ UNCHANGED <<now, tasks, dispatches>>

\* processLine on a line that matches Permit
ProcessPromptLine(line, ctx) ==
  LET id == ContextIdentifier(ctx, line, now)
      r == ShouldProcessPromptResult(Prompt, line, now)
  IN /\ IF id # Prompt.LastLine
        THEN /\ lastCheck' = [called |-> TRUE, text |-> StripAnsi(line), time |-> now,
                              ok |-> r.ok, before |-> Prompt]
             /\ chunkLog' = [chunkLog EXCEPT ![Len(chunkLog)] =
                                [@ EXCEPT !.checked = TRUE, !.ok = r.ok, !.at = now,
                                          !.text = StripAnsi(line)]]
             /\ Prompt' = IF r.ok
                          THEN StartPromptCollectionWithContext(
                                 [Prompt EXCEPT !.Processed = r.Processed], line, id, ctx)
                          ELSE [Prompt EXCEPT !.Processed = r.Processed]
        ELSE /\ lastCheck' = NoCheck
             /\ UNCHANGED <<Prompt, chunkLog>>
     /\ UNCHANGED <<now, tasks, dispatches>>

\* a processChoice that ends the collection at the first line that is no
\* choice
processChoiceLoose(line, cleanLine) ==
  LET choices == AddChoice(Prompt, line)
  IN IF Contains(cleanLine, "BOX_BL") \/ ChoiceAnyIndex(cleanLine) = 0
     THEN /\ now + ChoiceProcessingDelayMs <= MaxTime
          /\ now' = now + ChoiceProcessingDelayMs
          /\ Prompt' = [Prompt EXCEPT !.CollectedChoices = choices, !.Started = FALSE]
          /\ \E bestChoice \in GetBestChoice(choices) :
               handleUserChoice(bestChoice, choices, now')
          /\ UNCHANGED chunkLog
     ELSE /\ Prompt' = [Prompt EXCEPT !.CollectedChoices = choices]
          /\ UNCHANGED <<now, tasks, dispatches, chunkLog>>

\* processChoice
processChoice(line, cleanLine) ==
  LET choices == AddChoice(Prompt, line)
  IN IF Contains(cleanLine, "BOX_BL")
     THEN /\ now + ChoiceProcessingDelayMs <= MaxTime
          /\ now' = now + ChoiceProcessingDelayMs
          /\ Prompt' = [Prompt EXCEPT !.CollectedChoices = choices, !.Started = FALSE]
          /\ \E bestChoice \in GetBestChoice(choices) :
               handleUserChoice(bestChoice, choices, now')
          /\ UNCHANGED chunkLog
     ELSE /\ Prompt' = [Prompt EXCEPT !.CollectedChoices = choices]
          /\ UNCHANGED <<now, tasks, dispatches, chunkLog>>

\* a Run that hands no line to processLine while a sender has not finished
RunProcessLineWhenIdle ==
  /\ \A i \in 1..Len(tasks) : tasks[i].pc = "done"
  /\ running = "reading"
  /\ buffer # <<>>
  /\ LET line == Head(buffer)
         cleanLine == StripAnsi(line)
         ctx == CollectContext(contextLines, cleanLine)
     IN /\ contextLines' = ctx
        /\ IF shouldSkipLine(cleanLine)
           THEN UNCHANGED <<now, Prompt, tasks, dispatches, chunkLog>> /\ lastCheck' = NoCheck
           ELSE IF PermitMatch(line)
           THEN ProcessPromptLine(line, ctx)
           ELSE IF Prompt.Started
           THEN processChoice(line, cleanLine) /\ lastCheck' = NoCheck
           ELSE UNCHANGED <<now, Prompt, tasks, dispatches, chunkLog>> /\ lastCheck' = NoCheck
  /\ buffer' = Tail(buffer)
  /\ UNCHANGED <<flags, running, reads, writes, cooldownStates, processedPrompts,
                 resets, armed, callVars>>

\* a processLine that hands every line to processChoice, started or not
RunProcessLineAnyState ==
  /\ running = "reading"
  /\ buffer # <<>>
  /\ LET line == Head(buffer)
         cleanLine == StripAnsi(line)
         ctx == CollectContext(contextLines, cleanLine)
     IN /\ contextLines' = ctx
        /\ IF shouldSkipLine(cleanLine)
           THEN UNCHANGED <<now, Prompt, tasks, dispatches, chunkLog>> /\ lastCheck' = NoCheck
           ELSE IF PermitMatch(line)
           THEN ProcessPromptLine(line, ctx)
           ELSE processChoice(line, cleanLine) /\ lastCheck' = NoCheck
  /\ buffer' = Tail(buffer)
  /\ UNCHANGED <<flags, running, reads, writes, cooldownStates, processedPrompts,
                 resets, armed, callVars>>

\* App.Run hands the next complete line to processLine
RunProcessLine ==
  /\ running = "reading"
  /\ buffer # <<>>
  /\ LET line == Head(buffer)
         cleanLine == StripAnsi(line)
         ctx == CollectContext(contextLines, cleanLine)
     IN /\ contextLines' = ctx
        /\ IF shouldSkipLine(cleanLine)
           THEN UNCHANGED <<now, Prompt, tasks, dispatches, chunkLog>> /\ lastCheck' = NoCheck
           ELSE IF PermitMatch(line)
           THEN ProcessPromptLine(line, ctx)
           ELSE IF Prompt.Started
           THEN processChoice(line, cleanLine) /\ lastCheck' = NoCheck
           ELSE UNCHANGED <<now, Prompt, tasks, dispatches, chunkLog>> /\ lastCheck' = NoCheck
  /\ buffer' = Tail(buffer)
  /\ UNCHANGED <<flags, running, reads, writes, cooldownStates, processedPrompts,
                 resets, armed, callVars>>

\* the clock advances
Advance(steps) ==
  /\ \E d \in steps : now + d <= MaxTime /\ now' = now + d
  /\ lastCheck' = NoCheck
  /\ UNCHANGED <<flags, running, buffer, reads, contextLines, Prompt, tasks, writes,
                 cooldownStates, processedPrompts, resets, armed, dispatches, chunkLog,
                 callVars>>

Tick == Advance(Steps)

\* ------------------------------------------------------------ goroutines
\* strings.SplitN(choice, ". ", 2): the text after the number and period,
\* or the whole text when there is none
ButtonText(choice) ==
  LET at == {i \in 1..Len(choice) : choice[i] \in IndexTokens}
  IN IF at = {} THEN choice
     ELSE SubSeq(choice, (CHOOSE i \in at : \A j \in at : i <= j) + 1, Len(choice))

\* extractButtons: one label for each key 1..len(choices) that is present
RECURSIVE ButtonsUpTo(_, _)
ButtonsUpTo(choices, n) ==
  IF n = 0 THEN <<>>
  ELSE LET key == CASE n = 1 -> "1" [] n = 2 -> "2" [] n = 3 -> "3" [] OTHER -> "none"
           rest == ButtonsUpTo(choices, n - 1)
       IN IF key \in DOMAIN choices THEN Append(rest, ButtonText(choices[key])) ELSE rest

extractButtons(choices) == ButtonsUpTo(choices, Cardinality(DOMAIN choices))

\* isValidCommandLine: the question, the cursor, the word "command", and a
\* leading ">" or "." disqualify a line
isValidCommandLine(line) ==
  LET cleanLine == Trim(line, {"BOX_V", "PAD"})
  IN /\ cleanLine # <<>>
     /\ ~(\E i \in 1..(Len(cleanLine) - 1) :
            cleanLine[i] = "Do you want to" /\ cleanLine[i + 1] = "proceed?")
     /\ ~Contains(cleanLine, "CURSOR")
     /\ ~ContainsAny(cleanLine, {"Rejected command:", "Bash command",
                                 "The command was automatically rejected."})
     /\ Head(cleanLine) \notin {">", "."}

\* buildAutoRejectMessage: the text as tokens, "NL" a line break
RECURSIVE CommandLines(_)
CommandLines(ctx) ==
  IF ctx = <<>> THEN <<>>
  ELSE LET rest == CommandLines(Tail(ctx))
           line == Head(ctx)
       IN IF Contains(line, "BOX_V") /\ isValidCommandLine(line)
          THEN (IF rest = <<>> THEN Trim(line, {"BOX_V", "PAD"})
                ELSE Trim(line, {"BOX_V", "PAD"}) \o <<"NL">> \o rest)
          ELSE rest

buildAutoRejectMessage(ctx) ==
  IF CommandLines(ctx) # <<>>
  THEN <<"Rejected command:", "NL">> \o CommandLines(ctx) \o <<"NL", "NL", "AutoRejectBaseMessage">>
  ELSE <<"AutoRejectBaseMessage">>

IsTask(i) == i \in 1..Len(tasks)

\* writeToTerminal by task i: WriteString succeeds or returns an error
writeToTerminal(i, what, text, ok) ==
  writes' = Append(writes, [task |-> i, what |-> what, text |-> text, ok |-> ok,
                            time |-> now])

\* handleDialogCooldown: SetDialogCooldown("main_dialog") and the goroutine
\* that clears it after DialogResetDelayMs
handleDialogCooldown ==
  /\ cooldownStates' = MapPut(cooldownStates, "main_dialog",
        [LastProcessed |-> now, JustShown |-> TRUE, CooldownUntil |-> now + DialogCooldownMs])
  /\ resets' = Append(resets, now + DialogResetDelayMs)
  /\ armed' = Append(armed, now)

driverVars == <<now, flags, running, buffer, reads, contextLines, Prompt,
                processedPrompts, dispatches, lastCheck, chunkLog, callVars>>

\* sendAutoApprove: the goroutine sleeps, then writes the best choice
SendAutoApprove(i) ==
  /\ IsTask(i) /\ tasks[i].kind = "approve" /\ tasks[i].pc = "sleep"
  /\ now >= tasks[i].wake
  /\ \E ok \in BOOLEAN :
       /\ writeToTerminal(i, "choice", <<tasks[i].choice>>, ok)
       /\ tasks' = [tasks EXCEPT ![i].pc = "done", ![i].failed = ~ok]
  /\ UNCHANGED <<driverVars, cooldownStates, resets, armed>>

\* an auto-reject that writes the message before the index
AutoRejectWriteMessageFirst(i) ==
  /\ now >= tasks[i].wake
  /\ \E ok \in BOOLEAN :
       \/ /\ tasks[i].pc = "idx"
          /\ writeToTerminal(i, "msg", buildAutoRejectMessage(Prompt.Context), ok)
          /\ tasks' = [tasks EXCEPT ![i].pc = IF ok THEN "msg" ELSE "done",
                                    ![i].wake = now + AutoRejectChoiceDelayMs,
                                    ![i].failed = ~ok]
       \/ /\ tasks[i].pc = "msg"
          /\ writeToTerminal(i, "idx", <<tasks[i].choice>>, ok)
          /\ tasks' = [tasks EXCEPT ![i].pc = IF ok THEN "cr" ELSE "done",
                                    ![i].wake = now + AutoRejectCRDelayMs,
                                    ![i].failed = ~ok]
       \/ /\ tasks[i].pc = "cr"
          /\ writeToTerminal(i, "cr", <<"CR">>, ok)
          /\ tasks' = [tasks EXCEPT ![i].pc = "done", ![i].failed = ~ok]
  /\ UNCHANGED <<driverVars, cooldownStates, resets, armed>>

\* an auto-reject that goes on after a failed write
AutoRejectWriteIgnoringErrors(i) ==
  /\ now >= tasks[i].wake
  /\ \E ok \in BOOLEAN :
       \/ /\ tasks[i].pc = "idx"
          /\ writeToTerminal(i, "idx", <<tasks[i].choice>>, ok)
          /\ tasks' = [tasks EXCEPT ![i].pc = "msg",
                                    ![i].wake = now + AutoRejectChoiceDelayMs,
                                    ![i].failed = @ \/ ~ok]
       \/ /\ tasks[i].pc = "msg"
          /\ writeToTerminal(i, "msg", buildAutoRejectMessage(Prompt.Context), ok)
          /\ tasks' = [tasks EXCEPT ![i].pc = "cr",
                                    ![i].wake = now + AutoRejectCRDelayMs,
                                    ![i].failed = @ \/ ~ok]
       \/ /\ tasks[i].pc = "cr"
          /\ writeToTerminal(i, "cr", <<"CR">>, ok)
          /\ tasks' = [tasks EXCEPT ![i].pc = "done", ![i].failed = @ \/ ~ok]
  /\ UNCHANGED <<driverVars, cooldownStates, resets, armed>>

\* the three writes of an auto-reject, each after its sleep; a failed write
\* returns from the function
AutoRejectWrite(i) ==
  /\ now >= tasks[i].wake
  /\ \E ok \in BOOLEAN :
       \/ /\ tasks[i].pc = "idx"
          /\ writeToTerminal(i, "idx", <<tasks[i].choice>>, ok)
          /\ tasks' = [tasks EXCEPT ![i].pc = IF ok THEN "msg" ELSE "done",
                                    ![i].wake = now + AutoRejectChoiceDelayMs,
                                    ![i].failed = ~ok, ![i].writing = FALSE]
       \/ /\ tasks[i].pc = "msg"
          /\ writeToTerminal(i, "msg", buildAutoRejectMessage(Prompt.Context), ok)
          /\ tasks' = [tasks EXCEPT ![i].pc = IF ok THEN "cr" ELSE "done",
                                    ![i].wake = now + AutoRejectCRDelayMs,
                                    ![i].failed = ~ok, ![i].writing = FALSE]
       \/ /\ tasks[i].pc = "cr"
          /\ writeToTerminal(i, "cr", <<"CR">>, ok)
          /\ tasks' = [tasks EXCEPT ![i].pc = "done", ![i].failed = ~ok, ![i].writing = FALSE]
  /\ UNCHANGED <<driverVars, cooldownStates, resets, armed>>

\* sendAutoReject: the goroutine wakes after AutoRejectProcessDelayMs
SendAutoRejectStart(i) ==
  /\ IsTask(i) /\ tasks[i].kind = "reject" /\ tasks[i].pc = "sleep"
  /\ now >= tasks[i].wake
  /\ tasks' = [tasks EXCEPT ![i].pc = "idx"]
  /\ UNCHANGED <<driverVars, writes, cooldownStates, resets, armed>>

SendAutoReject(i) ==
  /\ IsTask(i) /\ tasks[i].kind = "reject"
  /\ AutoRejectWrite(i)

\* writeAutoRejectChoice, called by the timer branch of sendAutoRejectWithWait
writeAutoRejectChoice(i) ==
  /\ IsTask(i) /\ tasks[i].kind = "wait"
  /\ AutoRejectWrite(i)

\* buildDialogMessage: the trigger line and the context lines that the
\* message is composed of
buildDialogMessage(triggerLine, ctx) == <<triggerLine>> \o ctx

\* the permission callback is called with the message and the buttons of the
\* current prompt
CallbackInvoke(i) ==
  tasks' = [tasks EXCEPT ![i].dpc = "asked", ![i].shown = TRUE,
                         ![i].buttons = extractButtons(Prompt.CollectedChoices),
                         ![i].message = buildDialogMessage(Prompt.TriggerLine,
                                                           Prompt.Context)]

\* sendAutoRejectWithWait: the outer goroutine makes the channels, starts the
\* dialog goroutine and enters the select with a timer of autoRejectWait s
WaitStart(i) ==
  /\ IsTask(i) /\ tasks[i].kind = "wait" /\ tasks[i].pc = "start"
  /\ tasks' = [tasks EXCEPT ![i].pc = "select", ![i].dpc = "build",
                            ![i].wake = now + flags.autoRejectWait * 1000]
  /\ UNCHANGED <<driverVars, writes, cooldownStates, resets, armed>>

\* the dialog goroutine builds the message and calls the callback
WaitDialogShow(i) ==
  /\ IsTask(i) /\ tasks[i].kind = "wait" /\ tasks[i].dpc = "build"
  /\ CallbackInvoke(i)
  /\ UNCHANGED <<driverVars, writes, cooldownStates, resets, armed>>

\* the callback returns
WaitDialogReturn(i) ==
  /\ IsTask(i) /\ tasks[i].kind = "wait" /\ tasks[i].dpc = "asked"
  /\ \E r \in Responses :
       tasks' = [tasks EXCEPT ![i].dpc = "select", ![i].resp = r,
                              ![i].late = (tasks[i].branch = "timer")]
  /\ UNCHANGED <<driverVars, writes, cooldownStates, resets, armed>>

\* a dialog goroutine that sends on an unbuffered channel and has no done case
WaitDialogDeliverUnbuffered(i) ==
  /\ IsTask(i) /\ tasks[i].kind = "wait" /\ tasks[i].dpc = "select"
  /\ tasks[i].pc = "select"
  /\ tasks' = [tasks EXCEPT ![i].dpc = "done", ![i].chan = <<tasks[i].resp>>]
  /\ UNCHANGED <<driverVars, writes, cooldownStates, resets, armed>>

\* the select of the dialog goroutine: the send on userChoiceChan (capacity
\* one) or the receive on the closed done channel, whichever is ready
WaitDialogDeliver(i) ==
  /\ IsTask(i) /\ tasks[i].kind = "wait" /\ tasks[i].dpc = "select"
  /\ \/ /\ Len(tasks[i].chan) < 1
        /\ tasks' = [tasks EXCEPT ![i].dpc = "done", ![i].chan = <<tasks[i].resp>>]
     \/ /\ tasks[i].closes > 0
        /\ tasks' = [tasks EXCEPT ![i].dpc = "done"]
  /\ UNCHANGED <<driverVars, writes, cooldownStates, resets, armed>>

\* an outer goroutine that still takes the user's choice after the timer
WaitSelectUserLate(i) ==
  /\ IsTask(i) /\ tasks[i].kind = "wait"
  /\ tasks[i].pc \in {"select", "idx", "msg", "cr"}
  /\ tasks[i].chan # <<>>
  /\ tasks' = [tasks EXCEPT ![i].pc = "user", ![i].got = Head(tasks[i].chan),
                            ![i].chan = <<>>, ![i].closes = @ + 1,
                            ![i].branch = "user"]
  /\ UNCHANGED <<driverVars, writes, cooldownStates, resets, armed>>

\* the select of the outer goroutine takes the user's choice and closes done
WaitSelectUser(i) ==
  /\ IsTask(i) /\ tasks[i].kind = "wait" /\ tasks[i].pc = "select"
  /\ tasks[i].chan # <<>>
  /\ tasks' = [tasks EXCEPT ![i].pc = "user", ![i].got = Head(tasks[i].chan),
                            ![i].chan = <<>>, ![i].closes = @ + 1,
                            ![i].branch = "user"]
  /\ UNCHANGED <<driverVars, writes, cooldownStates, resets, armed>>

\* the select of the outer goroutine takes the timer and closes done
WaitSelectTimer(i) ==
  /\ IsTask(i) /\ tasks[i].kind = "wait" /\ tasks[i].pc = "select"
  /\ now >= tasks[i].wake
  /\ tasks' = [tasks EXCEPT ![i].pc = "idx", ![i].closes = @ + 1, ![i].wake = now,
                            ![i].branch = "timer"]
  /\ UNCHANGED <<driverVars, writes, cooldownStates, resets, armed>>

\* a write of the user's choice that arms the cooldown whatever the outcome
UserChoiceWriteArmsAlways(i) ==
  /\ tasks[i].pc = "user"
  /\ \E ok \in BOOLEAN :
       /\ writeToTerminal(i, "answer", <<tasks[i].got>>, ok)
       /\ tasks' = [tasks EXCEPT ![i].pc = "done", ![i].failed = ~ok]
       /\ handleDialogCooldown
  /\ UNCHANGED driverVars

\* the user's choice is written; the cooldown follows a successful write
UserChoiceWrite(i) ==
  /\ tasks[i].pc = "user"
  /\ \E ok \in BOOLEAN :
       /\ writeToTerminal(i, "answer", <<tasks[i].got>>, ok)
       /\ tasks' = [tasks EXCEPT ![i].pc = "done", ![i].failed = ~ok, ![i].writing = FALSE]
       /\ IF ok THEN handleDialogCooldown ELSE UNCHANGED <<cooldownStates, resets, armed>>
  /\ UNCHANGED driverVars

WaitUserWrite(i) ==
  /\ IsTask(i) /\ tasks[i].kind = "wait"
  /\ UserChoiceWrite(i)

\* showDialog: the goroutine builds the message and calls the callback
ShowDialogShow(i) ==
  /\ IsTask(i) /\ tasks[i].kind = "dialog" /\ tasks[i].pc = "show"
  /\ tasks' = [tasks EXCEPT ![i].pc = "asked", ![i].shown = TRUE,
                            ![i].buttons = extractButtons(Prompt.CollectedChoices),
                            ![i].message = buildDialogMessage(Prompt.TriggerLine,
                                                              Prompt.Context)]
  /\ UNCHANGED <<driverVars, writes, cooldownStates, resets, armed>>

\* the callback returns; an empty answer ends the goroutine
ShowDialogReturn(i) ==
  /\ IsTask(i) /\ tasks[i].kind = "dialog" /\ tasks[i].pc = "asked"
  /\ \E r \in Responses :
       tasks' = [tasks EXCEPT ![i].pc = IF r = "" THEN "done" ELSE "user",
                              ![i].resp = r, ![i].got = r]
  /\ UNCHANGED <<driverVars, writes, cooldownStates, resets, armed>>

ShowDialogWrite(i) ==
  /\ IsTask(i) /\ tasks[i].kind = "dialog"
  /\ UserChoiceWrite(i)

\* the goroutine of handleDialogCooldown wakes and clears the cooldown
CooldownReset ==
  /\ \E k \in 1..Len(resets) :
       /\ now >= resets[k]
       /\ resets' = SubSeq(resets, 1, k - 1) \o SubSeq(resets, k + 1, Len(resets))
  /\ Prompt' = [Prompt EXCEPT !.JustShown = FALSE]
  /\ cooldownStates' = MapDel(cooldownStates, "main_dialog")
  /\ lastCheck' = NoCheck
  /\ UNCHANGED <<now, flags, running, buffer, reads, contextLines, tasks, writes,
                 processedPrompts, armed, dispatches, chunkLog, callVars>>

TaskStep ==
  \E i \in 1..MaxReads :
    \/ SendAutoApprove(i)
    \/ SendAutoRejectStart(i)
    \/ SendAutoReject(i)
    \/ WaitStart(i)
    \/ WaitDialogShow(i)
    \/ WaitDialogReturn(i)
    \/ WaitDialogDeliver(i)
    \/ WaitSelectUser(i)
    \/ WaitSelectTimer(i)
    \/ WaitUserWrite(i)
    \/ writeAutoRejectChoice(i)
    \/ ShowDialogShow(i)
    \/ ShowDialogReturn(i)
    \/ ShowDialogWrite(i)

Next == RunRead \/ RunProcessLine \/ RunEnd \/ Tick

Spec == Init /\ [][Next]_vars

\* lines that shouldSkipLine drops although they look like a choice or a
\* box close: a short choice, a choice in a diff line, a close after the
\* result glyph and a close of a narrow box
ShortChoice == <<"3.", "No">>

DiffChoice == <<"+ added line", "3.", "No, and tell Claude">>

ResultClose == <<"RESULT_MARK", "BOX_BL", "BOX_H", "BOX_BR">>

NarrowClose == <<"BOX_BL", "BOX_BR">>

\* a box with such lines between its choices and its close
SkipBox ==
  <<OpenLine, PromptA, Choice1, Choice2, ShortChoice, DiffChoice, ResultClose,
    NarrowClose, CloseLine>>

SkipChunks == {SkipBox, DialogBox2}

\* the driver on a stream with lines that are skipped
RunReadSkip == ReadChunkOf(SkipChunks, MaxReads)

NextSkip == RunReadSkip \/ RunProcessLine \/ RunEnd \/ Tick

SpecSkip == Init /\ [][NextSkip]_vars

\* a box with three choices whose redraw stops before the close
OpenBox3 == <<OpenLine, PromptB, Choice1, Choice2, Choice3>>

\* an open box and, after it, the box of another question
RestartChunks == {OpenBox3, DialogBox2}

\* the driver on a stream in which a new prompt starts over an open one
RunReadRestart == ReadChunkOf(RestartChunks, MaxReads)

NextRestart == RunReadRestart \/ RunProcessLine \/ RunEnd \/ Tick

SpecRestart == Init /\ [][NextRestart]_vars

\* the driver on a stream in which boxes stay open
RunReadUnclosed == ReadChunkOf(UnclosedChunks, MaxReads)

NextUnclosed == RunReadUnclosed \/ RunProcessLine \/ RunEnd \/ Tick

SpecUnclosed == Init /\ [][NextUnclosed]_vars

\* --------------------------------------------------- DeduplicationManager
\* the prompts that callers hand to the ledger
LedgerPrompts == {PromptA, PromptAColor, PromptB}

\* the advances of the clock while goroutines sleep and cooldowns run
ShortSteps == {500}

\* ShouldProcessPrompt: the result and the processedPrompts map it leaves
ShouldProcessPrompt(pp, prompt, t) ==
  LET cleanPrompt == StripAnsi(prompt)
      recent == cleanPrompt \in DOMAIN pp
                  /\ t - pp[cleanPrompt].ProcessedAt < PromptDuplicationSeconds * 1000
  IN [ok |-> ~recent,
      processed |-> IF cleanPrompt \in DOMAIN pp /\ ~recent
                    THEN MapDel(pp, cleanPrompt) ELSE pp]

\* ShouldProcessWithCooldown
ShouldProcessWithCooldown(pp, cs, prompt, cooldownKey, t) ==
  LET r == ShouldProcessPrompt(pp, prompt, t)
      cooling == cooldownKey \in DOMAIN cs
                   /\ cs[cooldownKey].JustShown /\ t < cs[cooldownKey].CooldownUntil
  IN [ok |-> r.ok /\ ~cooling, processed |-> r.processed]

\* cleanupExpiredEntries on the processed prompts
cleanupExpiredEntries(pp, t) ==
  [x \in {y \in DOMAIN pp : ~(t - pp[y].ProcessedAt > PromptDuplicationSeconds * 1000)}
     |-> pp[x]]

\* MarkPromptProcessed: the processedPrompts map it leaves
MarkPromptProcessed(pp, prompt, t) ==
  LET cleanPrompt == StripAnsi(prompt)
      marked == MapPut(pp, cleanPrompt,
                  [ProcessedAt |-> t,
                   Count |-> IF cleanPrompt \in DOMAIN pp THEN pp[cleanPrompt].Count + 1 ELSE 1])
  IN IF Cardinality(DOMAIN marked) > config.MaxEntries THEN cleanupExpiredEntries(marked, t)
     ELSE marked

\* the marks that the processed prompts record
RECURSIVE MarksOf(_, _)
MarksOf(pp, keys) ==
  IF keys = {} THEN 0
  ELSE LET k == CHOOSE x \in keys : TRUE
       IN pp[k].Count + MarksOf(pp, keys \ {k})

Marks(pp) == MarksOf(pp, DOMAIN pp)

ledgerFrame == <<flags, running, buffer, reads, contextLines, Prompt, tasks, writes,
                 dispatches, chunkLog, callVars>>

\* a caller asks the ledger about a prompt on the channel "main_dialog"
LedgerCheck ==
  /\ \E prompt \in LedgerPrompts :
       LET r == ShouldProcessWithCooldown(processedPrompts, cooldownStates, prompt,
                                          "main_dialog", now)
       IN /\ processedPrompts' = r.processed
          /\ lastCheck' = [called |-> TRUE, text |-> StripAnsi(prompt), time |-> now,
                           ok |-> r.ok,
                           known |-> StripAnsi(prompt) \in DOMAIN processedPrompts]
  /\ UNCHANGED <<ledgerFrame, now, cooldownStates, resets, armed>>

\* a caller marks a prompt as processed
LedgerMark ==
  /\ \E prompt \in LedgerPrompts :
       /\ Marks(processedPrompts) < MaxMarks
       /\ processedPrompts' = MarkPromptProcessed(processedPrompts, prompt, now)
  /\ lastCheck' = NoCheck
  /\ UNCHANGED <<ledgerFrame, now, cooldownStates, resets, armed>>

\* a dialog answer has been written: handleDialogCooldown runs
DialogAnswered ==
  /\ Len(armed) < MaxDialogs
  /\ handleDialogCooldown
  /\ lastCheck' = NoCheck
  /\ UNCHANGED <<ledgerFrame, now, processedPrompts>>

ShortTick == Advance(ShortSteps)

NextLedger == LedgerCheck \/ LedgerMark \/ DialogAnswered \/ CooldownReset \/ ShortTick

\* the ledger, the dispatches that arm its cooldown and the delayed clears
InitLedger ==
  /\ Init
  /\ flags = [autoApprove |-> FALSE, autoReject |-> FALSE, autoRejectWait |-> 0]

SpecLedger == InitLedger /\ [][NextLedger]_vars

\* ------------------------------------------- the ledger and its memory
\* the prompts of TestMemoryCleanup: "prompta", "promptb", ...
MemoryPrompts == {<<"prompta">>, <<"promptb">>, <<"promptc">>, <<"promptd">>, <<"prompte">>}

\* the configurations of a test: DefaultConfig() with a small MaxEntries
MemoryConfigs == {[DefaultConfig EXCEPT !.MaxEntries = n] : n \in 1..MaxConfigEntries}

\* the advances of the mock clock
MemorySteps == {3000}

memoryFrame == <<flags, running, buffer, reads, contextLines, Prompt, tasks, writes,
                 cooldownStates, resets, armed, dispatches, chunkLog, callVars>>

\* dm.ShouldProcessPrompt(prompt)
MemoryCheck ==
  /\ \E prompt \in MemoryPrompts :
       processedPrompts' = ShouldProcessPrompt(processedPrompts, prompt, now).processed
  /\ lastCheck' = NoCheck
  /\ UNCHANGED <<memoryFrame, now>>

\* dm.MarkPromptProcessed(prompt)
MemoryMark ==
  /\ Marks(processedPrompts) < MaxMemoryMarks
  /\ \E prompt \in MemoryPrompts :
       processedPrompts' = MarkPromptProcessed(processedPrompts, prompt, now)
  /\ lastCheck' = NoCheck
  /\ UNCHANGED <<memoryFrame, now>>

\* dm.ClearExpiredEntries(), called by the test and by periodicCleanup
ClearExpiredEntries ==
  /\ processedPrompts' = cleanupExpiredEntries(processedPrompts, now)
  /\ lastCheck' = NoCheck
  /\ UNCHANGED <<memoryFrame, now>>

\* mockTime.AdvanceTime
MemoryTick == Advance(MemorySteps)

NextMemory == MemoryCheck \/ MemoryMark \/ ClearExpiredEntries \/ MemoryTick

InitMemory ==
  /\ InitPipeline
  /\ flags = [autoApprove |-> FALSE, autoReject |-> FALSE, autoRejectWait |-> 0]
  /\ selection = NoSelection /\ osDialog = NoShow /\ hook = NoHook
  /\ returned = NotReturned
  /\ config \in MemoryConfigs
  /\ cleanup = NoCleanup

SpecMemory == InitMemory /\ [][NextMemory]_vars

\* ------------------------------------------- the goroutine of the ledger
\* the prompts marked while the goroutine runs
CleanupPrompts == {<<"prompt1">>, <<"prompt2">>}

\* config.CleanupInterval of a manager with periodic cleanup, in ms
CleanupIntervals == {100, 3000}

\* the advances of the clock
CleanupSteps == {1000, 2000}

cleanupFrame == <<flags, running, buffer, reads, contextLines, Prompt, tasks, writes,
                  cooldownStates, resets, armed, dispatches, chunkLog, selection,
                  osDialog, hook, returned, config>>

\* NewDeduplicationManagerWithTimeProvider with CleanupInterval > 0: the
\* ticker of the provider (a MockTicker, whose channel holds one tick and
\* which has not ticked yet, or a time.Ticker, which counts from now) and
\* the goroutine at its select
NewCleanup(mock, duration, t) ==
  [pc |-> "select", mock |-> mock, duration |-> duration, pending |-> 0,
   stopped |-> FALSE, tickerClosed |-> FALSE,
   lastTick |-> IF mock THEN -1 ELSE t, stopCleanup |-> "open", late |-> FALSE]

\* TriggerIfReady(currentTime), and the send of the runtime on a time.Ticker:
\* a tick is put in the channel when the period has passed and the channel
\* is empty
TriggerIfReady(c, currentTime) ==
  IF c.stopped THEN c
  ELSE IF c.lastTick = -1 \/ currentTime - c.lastTick >= c.duration
       THEN IF c.pending = 0
            THEN [c EXCEPT !.pending = 1, !.lastTick = currentTime]
            ELSE c
       ELSE c

\* AdvanceTime(duration): the clock moves and the tickers that are not
\* stopped are triggered
CleanupAdvance ==
  /\ \E d \in CleanupSteps :
       /\ now + d <= MaxTime
       /\ now' = now + d
       /\ cleanup' = TriggerIfReady(cleanup, now + d)
  /\ lastCheck' = NoCheck
  /\ UNCHANGED <<cleanupFrame, processedPrompts>>

\* dm.MarkPromptProcessed(prompt)
CleanupMark ==
  /\ Marks(processedPrompts) < MaxMarks
  /\ \E prompt \in CleanupPrompts :
       processedPrompts' = MarkPromptProcessed(processedPrompts, prompt, now)
  /\ lastCheck' = NoCheck
  /\ UNCHANGED <<cleanupFrame, cleanup, now>>

\* the receive from cleanupTicker.C() can proceed: a tick is in the channel,
\* or the channel is closed
TickReady(c) == c.pending = 1 \/ c.tickerClosed

\* periodicCleanup, case <-dm.cleanupTicker.C(): dm.ClearExpiredEntries()
PeriodicCleanupTick ==
  /\ cleanup.pc = "select"
  /\ TickReady(cleanup)
  /\ processedPrompts' = cleanupExpiredEntries(processedPrompts, now)
  /\ cleanup' = [cleanup EXCEPT !.pending = 0,
                                !.late = @ \/ cleanup.stopCleanup = "closed"]
  /\ lastCheck' = NoCheck
  /\ UNCHANGED <<cleanupFrame, now>>

\* periodicCleanup, case <-dm.stopCleanup: return
PeriodicCleanupStop ==
  /\ cleanup.pc = "select"
  /\ cleanup.stopCleanup = "closed"
  /\ cleanup' = [cleanup EXCEPT !.pc = "done"]
  /\ lastCheck' = NoCheck
  /\ UNCHANGED <<cleanupFrame, now, processedPrompts>>

\* MockTicker.Stop closes the channel of the ticker; time.Ticker.Stop
\* leaves it open with the tick it may hold
TickerStop(c) ==
  [c EXCEPT !.stopped = TRUE, !.tickerClosed = c.mock]

\* dm.Close(), called once: cleanupTicker.Stop() and close(dm.stopCleanup)
Close ==
  /\ cleanup.pc # "none"
  /\ cleanup.stopCleanup = "open"
  /\ cleanup' = [TickerStop(cleanup) EXCEPT !.stopCleanup = "closed"]
  /\ lastCheck' = NoCheck
  /\ UNCHANGED <<cleanupFrame, now, processedPrompts>>

NextCleanup ==
  CleanupAdvance \/ CleanupMark \/ PeriodicCleanupTick \/ PeriodicCleanupStop \/ Close

InitCleanup ==
  /\ InitPipeline
  /\ flags = NoFlags
  /\ selection = NoSelection /\ osDialog = NoShow /\ hook = NoHook
  /\ returned = NotReturned
  /\ config = DefaultConfig
  /\ \E mock \in BOOLEAN, duration \in CleanupIntervals :
       cleanup = NewCleanup(mock, duration, 0)

SpecCleanup == InitCleanup /\ [][NextCleanup]_vars

\* the select of periodicCleanup picks among the cases that can proceed at
\* random, so the case of stopCleanup, which can proceed from Close on, is
\* taken in the end
FairSpecCleanup == SpecCleanup /\ WF_vars(PeriodicCleanupStop)

\* ------------------------------------------- the ledger used by goroutines
\* a goroutine that asks about its prompt and then marks it, in rounds
NewAccess(prompt) ==
  [kind |-> "access", pc |-> "check", prompt |-> prompt, ops |-> 0, told |-> <<>>]

accessFrame == <<flags, running, buffer, reads, contextLines, Prompt, writes,
                 cooldownStates, resets, armed, dispatches, chunkLog, callVars>>

\* dm.ShouldProcessPrompt(prompt), one locked call; told records when it said yes
AccessCheck(i) ==
  /\ tasks[i].pc = "check"
  /\ LET r == ShouldProcessPrompt(processedPrompts, tasks[i].prompt, now)
     IN /\ processedPrompts' = r.processed
        /\ tasks' = [tasks EXCEPT ![i].pc = "mark",
                                  ![i].told = IF r.ok THEN Append(@, now) ELSE @]
        /\ lastCheck' = [called |-> TRUE, text |-> StripAnsi(tasks[i].prompt),
                         time |-> now, ok |-> r.ok,
                         known |-> StripAnsi(tasks[i].prompt) \in DOMAIN processedPrompts]
  /\ UNCHANGED <<accessFrame, now>>

\* dm.MarkPromptProcessed(prompt), a second locked call
AccessMark(i) ==
  /\ tasks[i].pc = "mark"
  /\ processedPrompts' = MarkPromptProcessed(processedPrompts, tasks[i].prompt, now)
  /\ tasks' = [tasks EXCEPT ![i].ops = @ + 1,
                            ![i].pc = IF tasks[i].ops + 1 < MaxOperations
                                      THEN "check" ELSE "done"]
  /\ lastCheck' = NoCheck
  /\ UNCHANGED <<accessFrame, now>>

NextAccess ==
  \/ \E i \in 1..Len(tasks) : AccessCheck(i)
  \/ \E i \in 1..Len(tasks) : AccessMark(i)
  \/ Tick

InitAccess ==
  /\ now = 0 /\ running = "reading" /\ buffer = <<>> /\ reads = 0
  /\ contextLines = <<>> /\ Prompt = NewPromptState /\ writes = <<>>
  /\ cooldownStates = EmptyMap /\ processedPrompts = EmptyMap
  /\ resets = <<>> /\ armed = <<>> /\ dispatches = <<>>
  /\ lastCheck = NoCheck /\ chunkLog = <<>>
  /\ flags = NoFlags
  /\ selection = NoSelection /\ osDialog = NoShow /\ hook = NoHook /\ returned = NotReturned /\ config = DefaultConfig /\ cleanup = NoCleanup
  /\ \E ps \in [1..NumGoroutines -> LedgerPrompts] :
       tasks = [i \in 1..NumGoroutines |-> NewAccess(ps[i])]

SpecAccess == InitAccess /\ [][NextAccess]_vars

\* a goroutine has been started and has not ended, or a clear is pending
Pending ==
  \/ resets # <<>>
  \/ \E i \in 1..Len(tasks) :
       tasks[i].pc # "done" \/ tasks[i].dpc \notin {"none", "done"}

\* the clock advances while goroutines sleep or wait (what they do depends
\* on differences of times only, so the clock is followed from the first
\* dispatch on)
TaskTick == Pending /\ Advance(ShortSteps)

\* the driver together with the goroutines it starts
NextDispatch ==
  RunReadPrompt \/ RunProcessLine \/ RunEnd \/ TaskTick \/ TaskStep \/ CooldownReset

SpecDispatch == Init /\ [][NextDispatch]_vars

\* ------------------------------------------------- overlapping dispatches
\* task i calls writeToTerminal: it is inside p.ptmx.WriteString / Sync (no
\* lock is taken) until the write action of its sender returns
WriteEnter(i) ==
  /\ IsTask(i) /\ ~tasks[i].writing
  /\ \/ tasks[i].kind = "dialog" /\ tasks[i].pc = "user"
     \/ tasks[i].kind = "reject" /\ tasks[i].pc \in {"idx", "msg", "cr"}
          /\ now >= tasks[i].wake
  /\ tasks' = [tasks EXCEPT ![i].writing = TRUE]
  /\ UNCHANGED <<driverVars, writes, cooldownStates, resets, armed>>

\* the write call of task i returns
WriteLeave(i) ==
  /\ IsTask(i) /\ tasks[i].writing
  /\ (ShowDialogWrite(i) \/ SendAutoReject(i))

RunReadOverlap == ReadChunkOf(OverlapChunks, MaxReads)

OverlapStep ==
  \E i \in 1..MaxReads :
    \/ SendAutoRejectStart(i)
    \/ ShowDialogShow(i)
    \/ ShowDialogReturn(i)
    \/ WriteEnter(i)
    \/ WriteLeave(i)

\* a goroutine is in time.Sleep
Sleeping ==
  \/ \E k \in 1..Len(resets) : now < resets[k]
  \/ \E i \in 1..Len(tasks) :
       /\ tasks[i].kind = "reject" /\ tasks[i].pc \in {"sleep", "idx", "msg", "cr"}
       /\ now < tasks[i].wake

\* the lines of one Read are processed at once; the clock is followed while
\* a goroutine sleeps
OverlapTick == buffer = <<>> /\ Sleeping /\ Advance(ShortSteps)

NextOverlap ==
  RunReadOverlap \/ RunProcessLine \/ RunEnd \/ OverlapTick \/ OverlapStep \/ CooldownReset

\* the child prints two boxes; the mode is the dialog or the immediate reject
InitOverlap ==
  /\ Init
  /\ ~flags.autoApprove /\ flags.autoRejectWait = 0

SpecOverlap == InitOverlap /\ [][NextOverlap]_vars

\* ------------------------------------------------------- choice selection
\* the keys and the cleaned texts of the choice maps handed to GetBestChoice;
\* "11" is a key outside the fallback loop
ChoiceIndices == {"1", "2", "3", "11"}

ChoiceTexts == {<<"Yes">>, <<"Approve">>, <<"Add a new rule">>, <<"No, and tell Claude">>}

ChoiceMaps ==
  UNION {{[num \in keys |-> <<IndexTok(num)>> \o texts[num]] : texts \in [keys -> ChoiceTexts]} :
           keys \in SUBSET ChoiceIndices}

selectionFrame == <<now, flags, running, buffer, reads, contextLines, Prompt, tasks,
                    writes, cooldownStates, processedPrompts, resets, armed, dispatches,
                    lastCheck, chunkLog, osDialog, hook, returned, config, cleanup>>

\* GetBestChoice returns; the map iteration picks among the matches
SelectBest ==
  /\ selection.pc = "called"
  /\ \E bestChoice \in GetBestChoice(selection.choices) :
       selection' = [selection EXCEPT !.pc = "best", !.best = bestChoice]
  /\ UNCHANGED selectionFrame

\* findMaxRejectChoice returns
SelectMostRestrictive ==
  /\ selection.pc = "best"
  /\ selection' = [selection EXCEPT !.pc = "done",
                                    !.maxChoice = findMaxRejectChoice(selection.choices)]
  /\ UNCHANGED selectionFrame

NextChoice == SelectBest \/ SelectMostRestrictive

\* the two selectors are called with any choice map
InitChoice ==
  /\ InitPipeline
  /\ flags = NoFlags
  /\ osDialog = NoShow
  /\ hook = NoHook /\ returned = NotReturned /\ config = DefaultConfig /\ cleanup = NoCleanup
  /\ \E choices \in ChoiceMaps :
       selection = [NoSelection EXCEPT !.pc = "called", !.choices = choices]

SpecChoice == InitChoice /\ [][NextChoice]_vars

\* --------------------------------------------------------- SimpleOSDialog
\* button labels; LONG_LABEL stands for a label of more than 50 bytes
ButtonNames == {"Allow", "Deny", "Always Deny", "LONG_LABEL"}

\* len(button)
ButtonLen(b) ==
  CASE b = "LONG_LABEL" -> 60
    [] b = "LONG_LABEL..." -> 50
    [] b = "" -> 0
    [] OTHER -> 11

\* button[:47] + "..." for a label of more than 50 bytes
Truncate(b) == IF ButtonLen(b) > 50 THEN "LONG_LABEL..." ELSE b

\* buttonName[:47] of a name of at least 47 bytes
Prefix47(b) == IF b \in {"LONG_LABEL", "LONG_LABEL..."} THEN "LONG_LABEL[:47]" ELSE b

\* all button lists of at most n labels
ButtonLists(n) == UNION {[1..k -> ButtonNames] : k \in 0..n}

\* what osascript can print for display dialog: the button clicked (with or
\* without the give-up field), a name that is no button, the give-up of the
\* timeout, nothing, or something else
DisplayOutputs ==
  {<<"button returned:", n, ",", "gave up:false">> :
      n \in {"Allow", "Deny", "Always Deny", "LONG_LABEL...", "Unknown Option"}}
  \cup {<<"button returned:", n>> : n \in {"Allow", "Deny"}}
  \cup {<<"button returned:", "", ",", "gave up:true">>, <<>>, <<"some other output">>}

\* what osascript can print for choose from list
ListOutputs ==
  {<<n>> : n \in ButtonNames \cup {"Unknown Option", "false", "PAD"}}
  \cup {<<"{", "QUOTE", n, "QUOTE", "}">> : n \in {"Deny", "LONG_LABEL"}}
  \cup {<<"{", "Always Deny", ",", "LONG_LABEL", "}">>, <<>>}

\* the 1-based index of the first button among the matching ones (hits), as
\* a string, or the index of the last button when none matches
IndexOrLast(buttons, hits) ==
  IF hits # {} THEN ToString(CHOOSE i \in hits : \A j \in hits : i <= j)
  ELSE ToString(Len(buttons))

\* a parseAppleScriptResult that answers the first button when nothing matches
parseAppleScriptResultFirst(output, buttons) ==
  IF Contains(output, "gave up:true") THEN ""
  ELSE LET at == {i \in 1..(Len(output) - 1) :
                    output[i] = "button returned:" /\ output[i + 1] \notin {"", ","}}
           buttonName == output[(CHOOSE i \in at : \A j \in at : i <= j) + 1]
           hits == {i \in 1..Len(buttons) : at # {} /\ buttons[i] = buttonName}
       IN IF hits # {} THEN ToString(CHOOSE i \in hits : \A j \in hits : i <= j)
          ELSE "1"

\* parseAppleScriptResult
parseAppleScriptResult(output, buttons) ==
  IF Contains(output, "gave up:true") THEN ""
  ELSE LET at == {i \in 1..(Len(output) - 1) :
                    output[i] = "button returned:" /\ output[i + 1] \notin {"", ","}}
           buttonName == output[(CHOOSE i \in at : \A j \in at : i <= j) + 1]
       IN IF at # {}
          THEN IndexOrLast(buttons,
                 {i \in 1..Len(buttons) :
                    \/ buttons[i] = buttonName
                    \/ /\ ButtonLen(buttons[i]) > 50 /\ ButtonLen(buttonName) >= 47
                       /\ Prefix47(buttons[i]) = Prefix47(buttonName)})
          ELSE ToString(Len(buttons))

\* parseChooseFromListResult
parseChooseFromListResult(output, buttons) ==
  LET trimmed == Trim(output, {"PAD"})
      inner == IF Len(trimmed) >= 2 /\ Head(trimmed) = "{" /\ trimmed[Len(trimmed)] = "}"
               THEN Trim(SubSeq(trimmed, 2, Len(trimmed) - 1), {"PAD"}) ELSE trimmed
      commas == {i \in 1..Len(inner) : inner[i] = ","}
      first == IF commas # {}
               THEN SubSeq(inner, 1, (CHOOSE i \in commas : \A j \in commas : i <= j) - 1)
               ELSE inner
      normalized == Trim(Trim(first, {"PAD"}), {"QUOTE"})
  IN IF trimmed = <<"false">> THEN ToString(Len(buttons))
     ELSE IndexOrLast(buttons, {i \in 1..Len(buttons) : normalized = <<buttons[i]>>})

\* Show: no buttons become the one button OK; more than three buttons use
\* choose from list
Show ==
  /\ osDialog.pc = "called"
  /\ LET buttons == IF Len(osDialog.given) = 0 THEN <<"OK">> ELSE osDialog.given
     IN osDialog' = [osDialog EXCEPT
           !.pc = "osascript",
           !.buttons = buttons,
           !.defaultButton = IF Len(osDialog.given) = 0 THEN "OK" ELSE @,
           !.kind = IF Len(buttons) > 3 THEN "list" ELSE "display"]
  /\ UNCHANGED <<now, flags, running, buffer, reads, contextLines, Prompt, tasks, writes,
                 cooldownStates, processedPrompts, resets, armed, dispatches, lastCheck,
                 chunkLog, selection, hook, returned, config, cleanup>>

\* executeAppleScriptDialog and executeChooseFromListDialog: cmd.Output of
\* osascript gives an error, which answers the last button, or the text it
\* printed, which is parsed
ShowReturn ==
  /\ osDialog.pc = "osascript"
  /\ \/ osDialog' = [osDialog EXCEPT !.pc = "returned", !.failed = TRUE,
                                      !.result = ToString(Len(osDialog.buttons))]
     \/ /\ osDialog.kind = "display"
        /\ \E out \in DisplayOutputs :
             osDialog' = [osDialog EXCEPT
                !.pc = "returned", !.output = out,
                !.result = parseAppleScriptResult(out, osDialog.buttons)]
     \/ /\ osDialog.kind = "list"
        /\ \E out \in ListOutputs :
             osDialog' = [osDialog EXCEPT
                !.pc = "returned", !.output = out,
                !.result = parseChooseFromListResult(out, osDialog.buttons)]
  /\ UNCHANGED <<now, flags, running, buffer, reads, contextLines, Prompt, tasks, writes,
                 cooldownStates, processedPrompts, resets, armed, dispatches, lastCheck,
                 chunkLog, selection, hook, returned, config, cleanup>>

NextOSDialog == Show \/ ShowReturn

\* Show is called with any list of at most MaxButtons buttons, the first one
\* the default
InitOSDialog ==
  /\ InitPipeline
  /\ flags = NoFlags
  /\ selection = NoSelection
  /\ hook = NoHook /\ returned = NotReturned /\ config = DefaultConfig /\ cleanup = NoCleanup
  /\ \E given \in ButtonLists(MaxButtons) :
       osDialog = [NoShow EXCEPT !.pc = "called", !.given = given,
                                 !.defaultButton = IF given = <<>> THEN "" ELSE given[1]]

SpecOSDialog == InitOSDialog /\ [][NextOSDialog]_vars

\* ------------------------------------------------ the PermissionRequest hook
buttonIndexAllow == "1"
buttonIndexDeny == "2"
behaviorAllow == "allow"
behaviorDeny == "deny"
hookEventPermissionRequest == "PermissionRequest"

\* a JSON value that is not an object: its type and, for a string, its text
Absent == [t |-> "absent", s |-> ""]
JString(s) == [t |-> "string", s |-> s]
ToolNames == {Absent, [t |-> "null", s |-> ""], [t |-> "number", s |-> "1"],
              [t |-> "object", s |-> ""], JString("Bash"), JString("")}
FieldValues == {Absent, [t |-> "number", s |-> "1"], JString("ls")}

\* the values of tool_input: not there, no object, or an object with or
\* without the fields command and file_path
ToolInputs ==
  {[t |-> ty, command |-> Absent, file_path |-> Absent] :
     ty \in {"absent", "null", "string", "array"}}
  \cup {[t |-> "object", command |-> c, file_path |-> f] :
          c \in FieldValues, f \in FieldValues}

\* what stdin holds: nothing, text that is no JSON, a JSON text cut short, a
\* JSON value that is no object, null, or an object
Stdins ==
  {[kind |-> k, tool_name |-> Absent,
    tool_input |-> [t |-> "absent", command |-> Absent, file_path |-> Absent]] :
     k \in {"empty", "invalid", "truncated", "array", "string", "null"}}
  \cup {[kind |-> "object", tool_name |-> n, tool_input |-> i] :
          n \in ToolNames, i \in ToolInputs}

\* the --timeout values of the tests, in seconds
Timeouts == {"30", "60"}

\* the characters of a dialog response, and the responses made of them
ResponseChars == {"1", "2", "|", "m"}
MaxResponseLen == 3
DialogResponses == UNION {[1..k -> ResponseChars] : k \in 0..MaxResponseLen}

\* a decoder that takes empty input for an empty object
DecodeLenient(stdin) ==
  CASE stdin.kind = "invalid" -> [err |-> "invalid character", input |-> stdin]
    [] stdin.kind = "truncated" -> [err |-> "unexpected EOF", input |-> stdin]
    [] stdin.kind \in {"array", "string"} ->
         [err |-> "json: cannot unmarshal", input |-> stdin]
    [] OTHER -> [err |-> "", input |-> stdin]

\* json.NewDecoder(stdin).Decode(&input) into a map: the error ("" is nil)
\* and the map; null leaves the map nil, which has no keys
Decode(stdin) ==
  CASE stdin.kind = "empty" -> [err |-> "EOF", input |-> stdin]
    [] stdin.kind = "invalid" -> [err |-> "invalid character", input |-> stdin]
    [] stdin.kind = "truncated" -> [err |-> "unexpected EOF", input |-> stdin]
    [] stdin.kind \in {"array", "string"} ->
         [err |-> "json: cannot unmarshal", input |-> stdin]
    [] OTHER -> [err |-> "", input |-> stdin]

\* formatDialogMessage
formatDialogMessage(toolName, toolInput) ==
  <<"Tool:", toolName>>
  \o (IF toolInput.command.t = "string"
      THEN <<"Command:", toolInput.command.s>> ELSE <<>>)
  \o (IF toolInput.file_path.t = "string"
      THEN <<"File:", toolInput.file_path.s>> ELSE <<>>)

\* strings.SplitN(response, "|", 2)
SplitN2(response) ==
  LET bars == {k \in 1..Len(response) : response[k] = "|"}
  IN IF bars = {} THEN <<response>>
     ELSE LET k == CHOOSE x \in bars : \A y \in bars : x <= y
          IN <<SubSeq(response, 1, k - 1), SubSeq(response, k + 1, Len(response))>>

\* a parseDialogResponse that allows every index that starts with 1
parseDialogResponsePrefix(response, timeout) ==
  IF response = <<>>
  THEN [behavior |-> behaviorDeny,
        message |-> <<"User did not respond within", timeout, "seconds">>]
  ELSE LET parts == SplitN2(response)
       IN [behavior |-> IF parts[1] # <<>> /\ parts[1][1] = buttonIndexAllow
                        THEN behaviorAllow ELSE behaviorDeny,
           message |-> IF Len(parts) > 1 THEN parts[2] ELSE <<>>]

\* parseDialogResponse: the behavior and the message
parseDialogResponse(response, timeout) ==
  IF response = <<>>
  THEN [behavior |-> behaviorDeny,
        message |-> <<"User did not respond within", timeout, "seconds">>]
  ELSE LET parts == SplitN2(response)
       IN [behavior |-> IF parts[1] = <<buttonIndexAllow>>
                        THEN behaviorAllow ELSE behaviorDeny,
           message |-> IF Len(parts) > 1 THEN parts[2] ELSE <<>>]

\* createHookResponse: hasInterrupt and hasMessage say which keys the
\* decision has
createHookResponse(behavior, message) ==
  [hookEventName |-> hookEventPermissionRequest,
   behavior |-> behavior,
   hasInterrupt |-> behavior = behaviorDeny,
   interrupt |-> FALSE,
   hasMessage |-> behavior = behaviorDeny /\ message # <<>>,
   message |-> IF behavior = behaviorDeny THEN message ELSE <<>>]

hookFrame == <<now, flags, running, buffer, reads, contextLines, Prompt, tasks, writes,
               cooldownStates, processedPrompts, resets, armed, dispatches, lastCheck,
               chunkLog, selection, osDialog, returned, config, cleanup>>

\* handlePermissionRequestHook up to the call of dialog.Show, or to the
\* return of an error
HookStart ==
  /\ hook.pc = "called"
  /\ LET d == Decode(hook.stdin)
         toolName == d.input.tool_name
         toolInput == d.input.tool_input
     IN hook' =
          IF d.err # ""
          THEN [hook EXCEPT !.pc = "returned", !.err = d.err]
          ELSE IF toolName.t # "string"
          THEN [hook EXCEPT !.pc = "returned",
                            !.err = "missing or invalid tool_name in input"]
          ELSE IF toolInput.t # "object"
          THEN [hook EXCEPT !.pc = "returned",
                            !.err = "missing or invalid tool_input in input"]
          ELSE [hook EXCEPT !.pc = "dialog",
                            !.shown = Append(@,
                               [message |-> formatDialogMessage(toolName.s, toolInput),
                                buttons |-> <<"Allow", "Deny">>,
                                defaultButton |-> "Deny"])]
  /\ UNCHANGED hookFrame

\* dialog.Show returns a response; the hook encodes its answer to stdout,
\* which takes it or fails
HookAnswer ==
  /\ hook.pc = "dialog"
  /\ \E response \in DialogResponses : \E wrote \in BOOLEAN :
       LET p == parseDialogResponse(response, hook.timeout)
           output == createHookResponse(p.behavior, p.message)
       IN hook' = [hook EXCEPT !.pc = "returned",
                               !.response = response,
                               !.stdout = IF wrote THEN Append(@, output) ELSE @,
                               !.err = IF wrote THEN "" ELSE "write error"]
  /\ UNCHANGED hookFrame

NextHook == HookStart \/ HookAnswer

\* the hook is called with any stdin and a timeout
InitHook ==
  /\ InitPipeline
  /\ flags = NoFlags
  /\ selection = NoSelection /\ osDialog = NoShow /\ returned = NotReturned /\ config = DefaultConfig /\ cleanup = NoCleanup
  /\ \E stdin \in Stdins : \E timeout \in Timeouts :
       hook = [pc |-> "called", stdin |-> stdin, timeout |-> timeout,
               shown |-> <<>>, response |-> <<>>, stdout |-> <<>>, err |-> ""]

SpecHook == InitHook /\ [][NextHook]_vars

\* ------------------------------------------------------------ properties
\* the writes of task i, in order
TaskWrites(i) == SelectSeq(writes, LAMBDA w : w.task = i)

Kinds(ws) == [k \in 1..Len(ws) |-> ws[k].what]

IsPrefix(a, b) == Len(a) <= Len(b) /\ a = SubSeq(b, 1, Len(a))

RejectSequence == <<"idx", "msg", "cr">>

\* chunk k has been handed to processLine completely
ChunkDone(k) == k < Len(chunkLog) \/ (k = Len(chunkLog) /\ buffer = <<>>)

\* the number of dispatches once chunk k is done
DispatchesAfter(k) ==
  IF k < Len(chunkLog) THEN chunkLog[k + 1].before ELSE Len(dispatches)

\* chunks k and k + 1 are the same box, and both are done
FedTwice(k) ==
  /\ k + 1 <= Len(chunkLog)
  /\ chunkLog[k].chunk = chunkLog[k + 1].chunk
  /\ ChunkDone(k + 1)

\* C1: in auto-reject-with-wait mode exactly one branch of the race reaches
\* the child's input: when the select takes the dialog answer, the task
\* writes that answer and nothing else; when it takes the timer, the task
\* writes the most-restrictive index, the rejection message and the carriage
\* return and never an answer, however late the dialog returns.
C1_ExactlyOneBranchWrites ==
  \A i \in 1..Len(tasks) :
    tasks[i].kind = "wait" =>
      LET ws == TaskWrites(i)
      IN /\ tasks[i].branch = "none" => ws = <<>>
         /\ tasks[i].branch = "user" =>
              /\ Len(ws) <= 1
              /\ \A k \in 1..Len(ws) :
                   ws[k].what = "answer" /\ ws[k].text = <<tasks[i].resp>>
              /\ tasks[i].pc = "done" => Len(ws) = 1
         /\ tasks[i].branch = "timer" =>
              /\ IsPrefix(Kinds(ws), RejectSequence)
              /\ Len(ws) >= 1 =>
                   ws[1].text = <<findMaxRejectChoice(dispatches[i].choices)>>
              /\ (tasks[i].pc = "done" /\ ~tasks[i].failed) => Len(ws) = 3

\* the timer won, the dialog answered afterwards, and the three writes of the
\* rejection are the only ones
C1_Witness ==
  \E i \in 1..Len(tasks) :
    /\ tasks[i].kind = "wait" /\ tasks[i].branch = "timer" /\ tasks[i].pc = "done"
    /\ tasks[i].late /\ tasks[i].resp = "1" /\ tasks[i].dpc = "done"
    /\ Kinds(TaskWrites(i)) = RejectSequence

\* C2: once the timer branch has won, the dialog goroutine can always finish
\* when the dialog has returned: its select has a ready case (nothing blocks
\* it), and done is closed exactly once in the dispatch, so that no close
\* panics.
C2_LateDeliveryNeverBlocks ==
  \A i \in 1..MaxReads :
    (IsTask(i) /\ tasks[i].kind = "wait") =>
      /\ tasks[i].closes = (IF tasks[i].branch = "none" THEN 0 ELSE 1)
      /\ (tasks[i].branch = "timer" /\ tasks[i].dpc = "select")
           => ENABLED WaitDialogDeliver(i)

\* the dialog returned after the timer had won and its goroutine has ended
C2_Witness ==
  \E i \in 1..Len(tasks) :
    /\ tasks[i].kind = "wait" /\ tasks[i].branch = "timer" /\ tasks[i].late
    /\ tasks[i].dpc = "done" /\ tasks[i].closes = 1

\* C3 as stated: when the lines of one dialog box are fed twice in a row, the
\* dispatcher is invoked exactly once.
C3_FedTwiceDispatchedOnce ==
  \A k \in 1..Len(chunkLog) :
    FedTwice(k) => DispatchesAfter(k + 1) - chunkLog[k].before = 1

\* C3 amended: when the lines of one dialog box are fed twice in a row, the
\* prompt line of the first copy is accepted and the prompt line of the second
\* copy arrives less than the duplication window after that, the dispatcher
\* is invoked exactly once.
C3_FedTwiceWithinWindowDispatchedOnce ==
  \A k \in 1..Len(chunkLog) :
    (/\ FedTwice(k)
     /\ chunkLog[k].checked /\ chunkLog[k].ok
     /\ chunkLog[k + 1].at - chunkLog[k].at < PromptDuplicationSeconds * 1000)
      => DispatchesAfter(k + 1) - chunkLog[k].before = 1

\* a box with choices was fed twice within the window and dispatched once
C3_Witness ==
  /\ Len(chunkLog) = 2 /\ FedTwice(1)
  /\ chunkLog[1].chunk = DialogBox3
  /\ chunkLog[1].ok /\ chunkLog[2].checked /\ ~chunkLog[2].ok
  /\ chunkLog[2].at - chunkLog[1].at < PromptDuplicationSeconds * 1000
  /\ Len(dispatches) = 1

\* C4: the rejection notice, whose bordered lines contain "Do you want to",
\* opens no prompt (Started stays false, no dialog is shown) and makes the
\* handler write no choice digit.
C4_NoticeOpensNoPrompt ==
  (\A k \in 1..Len(chunkLog) : chunkLog[k].chunk = RejectionNotice) =>
     /\ ~Prompt.Started
     /\ dispatches = <<>>
     /\ \A i \in 1..Len(tasks) : ~tasks[i].shown
     /\ \A k \in 1..Len(writes) : writes[k].what \notin {"choice", "idx", "answer"}

\* C5: a prompt line whose ANSI-stripped text was accepted less than the
\* duplication window ago is rejected and leaves the prompt state as it was
\* (no collection starts); a prompt line with no such acceptance in the
\* window is accepted and starts a collection.
C5_DuplicateWithinWindowRejected ==
  lastCheck.called =>
    LET prev == {k \in 1..(Len(chunkLog) - 1) :
                   /\ chunkLog[k].checked /\ chunkLog[k].ok
                   /\ chunkLog[k].text = lastCheck.text}
        recent == \E k \in prev :
                    lastCheck.time - chunkLog[k].at < PromptDuplicationSeconds * 1000
    IN /\ recent =>
            /\ ~lastCheck.ok
            /\ Prompt.Started = lastCheck.before.Started
            /\ Prompt.LastLine = lastCheck.before.LastLine
            /\ Prompt.CollectedChoices = lastCheck.before.CollectedChoices
       /\ ~recent => (lastCheck.ok /\ Prompt.Started)

\* the plain prompt is rejected because its coloured copy was accepted
\* within the window
C5_Witness ==
  /\ lastCheck.called /\ ~lastCheck.ok
  /\ Len(chunkLog) = 2
  /\ chunkLog[1].chunk = DialogBox3 /\ chunkLog[1].ok
  /\ chunkLog[2].chunk = DialogBox2
  /\ lastCheck.time - chunkLog[1].at < PromptDuplicationSeconds * 1000

\* C6: a prompt that the ledger has not seen before is suppressed when it is
\* checked on "main_dialog" inside the cooldown window that a dispatch opened,
\* and accepted when no such window is open.
C6_CooldownSuppressesNewPrompt ==
  (lastCheck.called /\ ~lastCheck.known) =>
    (lastCheck.ok <=>
       ~\E k \in 1..Len(armed) :
          armed[k] <= lastCheck.time /\ lastCheck.time < armed[k] + DialogCooldownMs)

\* C7: every frozen prompt starts exactly one sender, the one that the
\* precedence auto-approve, auto-reject, auto-reject-with-wait, dialog names,
\* and only that sender writes: with auto-approve set the one write is the
\* best choice.
C7_OneBranchByPrecedence ==
  /\ Len(tasks) = Len(dispatches)
  /\ \A i \in 1..Len(tasks) :
       LET ws == TaskWrites(i)
       IN /\ tasks[i].kind =
               (CASE flags.autoApprove -> "approve"
                  [] ~flags.autoApprove /\ flags.autoReject -> "reject"
                  [] ~flags.autoApprove /\ ~flags.autoReject /\ flags.autoRejectWait > 0
                       -> "wait"
                  [] OTHER -> "dialog")
          /\ flags.autoApprove =>
               /\ Len(ws) <= 1
               /\ \A k \in 1..Len(ws) :
                    ws[k].what = "choice" /\ ws[k].text = <<dispatches[i].best>>
          /\ (~flags.autoApprove /\ flags.autoReject) => IsPrefix(Kinds(ws), RejectSequence)
          /\ (~flags.autoApprove /\ ~flags.autoReject /\ flags.autoRejectWait = 0) =>
               (Len(ws) <= 1 /\ \A k \in 1..Len(ws) : ws[k].what = "answer")

\* auto-approve and auto-reject are both set and the only write is the
\* approval
C7_Witness ==
  /\ flags.autoApprove /\ flags.autoReject
  /\ Len(tasks) = 1 /\ tasks[1].pc = "done"
  /\ Len(writes) = 1 /\ writes[1].what = "choice" /\ writes[1].text = <<"1">>

\* C8: a box that closes while no choice has been collected dispatches no
\* decision (so that nothing is written and no dialog is shown).
C8_NoDispatchWithoutChoices ==
  \A i \in 1..Len(dispatches) : DOMAIN dispatches[i].choices # {}

\* C9: an auto-reject (immediate, or after the timer of the wait mode) writes
\* the most-restrictive index, then the rejection message, then the carriage
\* return, each once and each after the write before it has returned and its
\* delay has passed.
C9_RejectWritesInOrder ==
  \A i \in 1..Len(tasks) :
    (tasks[i].kind = "reject" \/ (tasks[i].kind = "wait" /\ tasks[i].branch = "timer")) =>
      LET ws == TaskWrites(i)
      IN /\ IsPrefix(Kinds(ws), RejectSequence)
         /\ \A k \in 1..(Len(ws) - 1) : ws[k].ok
         /\ Len(ws) >= 1 => ws[1].text = <<findMaxRejectChoice(dispatches[i].choices)>>
         /\ Len(ws) >= 2 =>
              /\ ws[2].text[Len(ws[2].text)] = "AutoRejectBaseMessage"
              /\ ws[2].time - ws[1].time >= AutoRejectChoiceDelayMs
         /\ Len(ws) >= 3 =>
              /\ ws[3].text = <<"CR">>
              /\ ws[3].time - ws[2].time >= AutoRejectCRDelayMs
         /\ (tasks[i].pc = "done" /\ ~tasks[i].failed) => Len(ws) = 3

\* an immediate auto-reject has written its three parts
C9_Witness ==
  \E i \in 1..Len(tasks) :
    /\ tasks[i].kind = "reject" /\ tasks[i].pc = "done" /\ ~tasks[i].failed
    /\ Kinds(TaskWrites(i)) = RejectSequence
    /\ TaskWrites(i)[1].text = <<"3">>

\* C10: a failed write is the last write of its task (the rest of the
\* sequence is abandoned), and a write, failed or not, leaves the read loop
\* of the driver as it was.
C10_FailedWriteEndsSequence ==
  [][writes' # writes =>
       /\ running' = running
       /\ \A k \in 1..Len(writes) :
            writes[k].task = writes'[Len(writes')].task => writes[k].ok
       /\ ~writes'[Len(writes')].ok =>
            tasks'[writes'[Len(writes')].task].pc = "done"]_vars

\* the message write of an auto-reject failed, the carriage return was never
\* written and the driver is still reading
C10_Witness ==
  \E i \in 1..Len(tasks) :
    /\ tasks[i].kind = "reject" /\ tasks[i].pc = "done" /\ tasks[i].failed
    /\ Kinds(TaskWrites(i)) = <<"idx", "msg">>
    /\ running = "reading"

\* C11: in auto-reject-with-wait mode a dialog that fails (it cannot be shown,
\* or it returns the empty response) never leaves the prompt unresolved: a
\* dispatch whose dialog answered "" and whose writes all succeeded has, once
\* its goroutine has ended, written the most-restrictive index.
C11_DialogFailureStillRejects ==
  \A i \in 1..Len(tasks) :
    (/\ tasks[i].kind = "wait" /\ tasks[i].pc = "done" /\ ~tasks[i].failed
     /\ tasks[i].dpc \in {"select", "done"} /\ tasks[i].resp = "") =>
      \E k \in 1..Len(TaskWrites(i)) :
        /\ TaskWrites(i)[k].what = "idx"
        /\ TaskWrites(i)[k].text = <<findMaxRejectChoice(dispatches[i].choices)>>

\* the labels and the truncated labels of the buttons
Shown(buttons) ==
  {buttons[i] : i \in 1..Len(buttons)} \cup {Truncate(buttons[i]) : i \in 1..Len(buttons)}

C13_OnlyNonEmptyResponseWritten ==
  \A i \in 1..Len(tasks) :
    tasks[i].kind = "dialog" =>
      LET ws == TaskWrites(i)
      IN /\ Len(ws) <= 1
         /\ \A k \in 1..Len(ws) :
              /\ ws[k].what = "answer"
              /\ tasks[i].resp # "" /\ ws[k].text = <<tasks[i].resp>>
         /\ (tasks[i].pc = "done" /\ tasks[i].resp # "") => Len(ws) = 1
         /\ (tasks[i].shown /\ tasks[i].buttons = <<>>) => ws = <<>>

\* the indices in ascending numeric order
IndexOrder == FallbackNums \o <<"11">>

Rank(n) == CHOOSE k \in 1..Len(IndexOrder) : IndexOrder[k] = n

\* the lowest index of a set of indices
Lowest(S) == CHOOSE n \in S : \A m \in S : Rank(n) <= Rank(m)

AffirmativeIn(choices) == {n \in DOMAIN choices : ChoiceYesMatch(choices[n])}

RuleIn(choices) == {n \in DOMAIN choices : Contains(choices[n], "Add a new rule")}

InFallback(choices) == {n \in DOMAIN choices : Rank(n) <= Len(FallbackNums)}

\* C14: selectBest is deterministic: when several choices are affirmative
\* the one with the lowest index is returned, and when none is and several
\* contain "Add a new rule" the one with the lowest index is returned,
\* whatever the iteration order of the map.
C14_SelectBestDeterministic ==
  selection.pc \in {"best", "done"} =>
    /\ AffirmativeIn(selection.choices) # {} =>
         selection.best = Lowest(AffirmativeIn(selection.choices))
    /\ (AffirmativeIn(selection.choices) = {} /\ RuleIn(selection.choices) # {}) =>
         selection.best = Lowest(RuleIn(selection.choices))

\* C15: selectBest returns the index of an affirmative choice (Allow, Yes,
\* Approve) when there is one; otherwise the index of a choice that contains
\* "Add a new rule" when there is one; otherwise the lowest index present
\* among 1..10; otherwise, which includes the empty map, "1".
C15_SelectBestPriority ==
  selection.pc \in {"best", "done"} =>
    IF AffirmativeIn(selection.choices) # {}
    THEN selection.best \in AffirmativeIn(selection.choices)
    ELSE IF RuleIn(selection.choices) # {}
    THEN selection.best \in RuleIn(selection.choices)
    ELSE IF InFallback(selection.choices) # {}
    THEN selection.best = Lowest(InFallback(selection.choices))
    ELSE selection.best = "1"

\* choice 1 contains "Add a new rule", choice 2 is affirmative, and 2 is
\* returned
C15_Witness ==
  /\ selection.pc = "best"
  /\ selection.choices = ("1" :> <<"1.", "Add a new rule">> @@ "2" :> <<"2.", "Approve">>
                            @@ "3" :> <<"3.", "No, and tell Claude">>)
  /\ selection.best = "2"

\* C16: the index that an auto-reject writes, at once or after the timer of
\* the wait mode, is "3" when the choice map has index 3 and "2" otherwise,
\* whether index 2 is present or not (the empty map included).
C16_MostRestrictiveIndex ==
  \A i \in 1..Len(tasks) :
    tasks[i].kind \in {"reject", "wait"} =>
      /\ tasks[i].choice = (IF "3" \in DOMAIN dispatches[i].choices THEN "3" ELSE "2")
      /\ \A k \in 1..Len(TaskWrites(i)) :
           TaskWrites(i)[k].what = "idx" =>
             TaskWrites(i)[k].text =
               (IF "3" \in DOMAIN dispatches[i].choices THEN <<"3">> ELSE <<"2">>)

\* the timer of the wait mode has fired on a box with three choices and "3"
\* was written
C16_Witness ==
  \E i \in 1..Len(tasks) :
    /\ tasks[i].kind = "wait" /\ tasks[i].branch = "timer"
    /\ DOMAIN dispatches[i].choices = {"1", "2", "3"}
    /\ Len(TaskWrites(i)) >= 1
    /\ TaskWrites(i)[1].what = "idx" /\ TaskWrites(i)[1].text = <<"3">>

\* C17: when several tasks decide on the same prompt text within one
\* duplication window, at most one of them is told to process it
C17_OneTaskToldToProcess ==
  \A i \in 1..Len(tasks) : \A j \in 1..Len(tasks) :
    (/\ i # j
     /\ tasks[i].kind = "access" /\ tasks[j].kind = "access"
     /\ StripAnsi(tasks[i].prompt) = StripAnsi(tasks[j].prompt)) =>
      \A a \in 1..Len(tasks[i].told) : \A b \in 1..Len(tasks[j].told) :
        \/ tasks[i].told[a] - tasks[j].told[b] >= PromptDuplicationSeconds * 1000
        \/ tasks[j].told[b] - tasks[i].told[a] >= PromptDuplicationSeconds * 1000

\* C18: when Read reports end-of-file the read loop ends and Run returns
\* nil; any other read error also ends the loop and is returned to the
\* caller; after Run has returned nothing more is read or processed
C18_RunReturnsOnReadError ==
  /\ [](/\ returned.done <=> running # "reading"
        /\ returned.done =>
             /\ returned.read = "EOF" => returned.err = <<>>
             /\ returned.read # "EOF" =>
                  /\ returned.err # <<>>
                  /\ returned.err[Len(returned.err)] = returned.read)
  /\ [][returned.done =>
          /\ returned' = returned /\ running' = running
          /\ reads' = reads /\ buffer' = buffer /\ chunkLog' = chunkLog]_vars

\* Run has returned a read error that was not end-of-file
C18_Witness ==
  returned.done /\ returned.read = "EIO" /\ reads > 0

\* the button index of a dialog response: the text before the first "|"
ButtonIndex(response) ==
  LET bars == {k \in 1..Len(response) : response[k] = "|"}
  IN IF bars = {} THEN response
     ELSE SubSeq(response, 1, (CHOOSE x \in bars : \A y \in bars : x <= y) - 1)

\* C19: the hook outputs behavior "allow" only when the button index of the
\* dialog response is exactly "1"; every other response, the empty response
\* of a dialog timeout included, gives "deny" with interrupt set to false
C19_AllowOnlyOnIndexOne ==
  (hook.pc = "returned" /\ hook.stdout # <<>>) =>
    /\ Len(hook.stdout) = 1
    /\ LET out == hook.stdout[1]
       IN /\ out.behavior \in {behaviorAllow, behaviorDeny}
          /\ out.behavior = behaviorAllow => ButtonIndex(hook.response) = <<"1">>
          /\ ButtonIndex(hook.response) # <<"1">> =>
               /\ out.behavior = behaviorDeny
               /\ out.hasInterrupt /\ out.interrupt = FALSE

\* the dialog timed out, and the hook denied with interrupt false
C19_Witness ==
  /\ hook.pc = "returned" /\ hook.response = <<>> /\ Len(hook.stdout) = 1
  /\ hook.stdout[1].behavior = behaviorDeny /\ hook.stdout[1].hasInterrupt

\* stdin is empty, is no valid JSON, or is JSON that has no tool_name or no
\* tool_input (an object without the key, or a value that is no object)
BadStdin(stdin) ==
  \/ stdin.kind \in {"empty", "invalid", "truncated", "array", "string", "null"}
  \/ stdin.kind = "object" /\ stdin.tool_name.t = "absent"
  \/ stdin.kind = "object" /\ stdin.tool_input.t = "absent"

\* C20: with such a stdin the hook returns an error (end-of-input for an
\* empty stdin) without showing the dialog and without writing to stdout
C20_BadStdinGivesError ==
  (hook.pc # "none" /\ BadStdin(hook.stdin)) =>
    /\ hook.pc \in {"called", "returned"}
    /\ hook.shown = <<>> /\ hook.stdout = <<>>
    /\ hook.pc = "returned" =>
         /\ hook.err # ""
         /\ hook.stdin.kind = "empty" => hook.err = "EOF"

\* the hook has returned end-of-input for an empty stdin
C20_Witness ==
  hook.pc = "returned" /\ hook.stdin.kind = "empty" /\ hook.err = "EOF"

\* the labels of the three choice lines of DialogBox3
Box3Labels ==
  ("1" :> <<"Yes">>) @@ ("2" :> <<"Yes, and don't ask again">>)
    @@ ("3" :> <<"No, and tell Claude">>)

\* chunk k has been handed to processLine completely and its box close has
\* dispatched a decision
Dispatched(k) == ChunkDone(k) /\ DispatchesAfter(k) > chunkLog[k].before

\* C21 as stated: for the box with the three choice lines the frozen choice
\* map is {1: "Yes", 2: "Yes, and don't ask again", 3: "No, and tell Claude"}
C21_FrozenMapIsLabels ==
  \A k \in 1..Len(chunkLog) :
    (chunkLog[k].chunk = DialogBox3 /\ Dispatched(k)) =>
      dispatches[DispatchesAfter(k)].choices = Box3Labels

\* C21 amended: for the box with the three choice lines the frozen choice
\* map has the keys 1, 2 and 3, and each value is the index, a period and a
\* blank, followed by the label text with all border and cursor glyphs and
\* the padding stripped
C21_FrozenMapIsIndexedLabels ==
  \A k \in 1..Len(chunkLog) :
    (chunkLog[k].chunk = DialogBox3 /\ Dispatched(k)) =>
      dispatches[DispatchesAfter(k)].choices =
        [num \in {"1", "2", "3"} |-> <<IndexTok(num)>> \o Box3Labels[num]]

\* the box with the three choice lines has been read and dispatched
C21_Witness ==
  /\ Len(chunkLog) >= 1 /\ chunkLog[1].chunk = DialogBox3 /\ Dispatched(1)
  /\ DOMAIN dispatches[1].choices = {"1", "2", "3"}


\* C22: every dispatched decision, in every mode (auto-approve, immediate
\* auto-reject, timer-path reject and dialog answer), creates a cooldown on
\* the channel "main_dialog": once the task of a dispatch has written its
\* decision and ended, handleDialogCooldown has run for it
C22_EveryDispatchArmsCooldown ==
  \A i \in 1..Len(tasks) :
    (/\ tasks[i].kind \in {"approve", "reject", "wait", "dialog"}
     /\ tasks[i].pc = "done" /\ ~tasks[i].failed
     /\ TaskWrites(i) # <<>>) =>
      \E a \in 1..Len(armed) : armed[a] >= TaskWrites(i)[1].time


\* the successful writes of a dialog answer
AnswersWritten == {k \in 1..Len(writes) : writes[k].what = "answer" /\ writes[k].ok}

\* C23: a dispatch arms its cooldown only after its write to the child has
\* completed successfully; if that write fails, the dispatch is abandoned and
\* no cooldown is armed
C23_CooldownOnlyAfterWrite ==
  /\ Len(armed) = Cardinality(AnswersWritten)
  /\ \A a \in 1..Len(armed) : \E k \in AnswersWritten : writes[k].time <= armed[a]
  /\ \A i \in 1..Len(tasks) :
       (tasks[i].kind \in {"wait", "dialog"} /\ tasks[i].failed) =>
         /\ tasks[i].pc = "done"
         /\ ~TaskWrites(i)[Len(TaskWrites(i))].ok
         /\ \A k \in AnswersWritten : writes[k].task # i

\* the write of a dialog answer failed; the task ended and armed no cooldown
C23_Witness ==
  /\ Len(tasks) = 1 /\ tasks[1].kind = "dialog" /\ tasks[1].failed
  /\ Len(writes) = 1 /\ writes[1].what = "answer" /\ ~writes[1].ok
  /\ armed = <<>> /\ cooldownStates = EmptyMap


\* the tasks that are inside the write call on the pty
Writers == {i \in 1..Len(tasks) : tasks[i].writing}

\* C24: writes to the child's input stream from concurrent dispatch tasks are
\* serialized: no two tasks are ever executing the write call on the shared
\* handle at the same time
C24_WritesSerialized == Cardinality(Writers) <= 1


\* C25: the dialog message, the buttons and the rejection text used by a
\* dispatch task are those of the prompt whose box close spawned the task,
\* even when a new prompt starts collecting before the task reads them
C25_TaskUsesItsOwnPrompt ==
  \A i \in 1..Len(tasks) :
    /\ tasks[i].shown =>
         /\ tasks[i].buttons = extractButtons(dispatches[i].choices)
         /\ tasks[i].message =
              buildDialogMessage(dispatches[i].trigger, dispatches[i].context)
    /\ \A k \in 1..Len(TaskWrites(i)) :
         TaskWrites(i)[k].what = "msg" =>
           TaskWrites(i)[k].text = buildAutoRejectMessage(dispatches[i].context)


\* a dialog of task i is open, or task i is in a sleep of its sequence
Blocked(i) ==
  \/ tasks[i].kind = "dialog" /\ tasks[i].pc = "asked"
  \/ tasks[i].kind = "reject" /\ tasks[i].pc \in {"sleep", "idx", "msg", "cr"}
       /\ now < tasks[i].wake

ClosingLineNext == buffer # <<>> /\ Contains(StripAnsi(Head(buffer)), "BOX_BL")

RECURSIVE LinesRead(_)
LinesRead(k) == IF k = 0 THEN <<>> ELSE LinesRead(k - 1) \o chunkLog[k].chunk

\* the lines that processLine has been given
LinesSeen ==
  LET all == LinesRead(Len(chunkLog))
  IN SubSeq(all, 1, Len(all) - Len(buffer))

\* the positions in LinesSeen of the prompt lines that started a collection
StartPositions ==
  UNION {{Len(LinesRead(k - 1)) + j : j \in {i \in 1..Len(chunkLog[k].chunk) :
                                              PermitMatch(chunkLog[k].chunk[i])}} :
           k \in {c \in 1..Len(chunkLog) : chunkLog[c].ok}}

\* the position of the latest of them
LastStart == CHOOSE p \in StartPositions : \A q \in StartPositions : q <= p

\* the line at position p reaches processChoice
ReachesChoice(p) ==
  /\ ~shouldSkipLine(StripAnsi(LinesSeen[p]))
  /\ ~PermitMatch(LinesSeen[p])

\* the positions after the latest start whose line closed the box
ClosePositions ==
  {p \in (LastStart + 1)..Len(LinesSeen) :
     ReachesChoice(p) /\ Contains(StripAnsi(LinesSeen[p]), "BOX_BL")}

\* the numbered lines seen while the latest collection was open
ChoicePositions ==
  {p \in (LastStart + 1)..Len(LinesSeen) :
     /\ ReachesChoice(p)
     /\ ChoiceAnyIndex(StripAnsi(LinesSeen[p])) # 0
     /\ \A c \in ClosePositions : p < c}

\* the index of the numbered line at position p
IndexAt(p) ==
  LET cleanLine == StripAnsi(LinesSeen[p])
  IN NumOf(cleanLine[ChoiceAnyIndex(cleanLine)])

\* the entry that the numbered line at position p stores on its own
EntryAt(p) ==
  AddChoice([NewPromptState EXCEPT !.Started = TRUE], LinesSeen[p])[IndexAt(p)]

\* for each index, the entry of the latest line that carried it
LatestEntries ==
  [n \in {IndexAt(p) : p \in ChoicePositions} |->
     EntryAt(CHOOSE p \in ChoicePositions :
               /\ IndexAt(p) = n
               /\ \A q \in ChoicePositions : IndexAt(q) = n => q <= p)]

\* C28: while collecting, each numbered line sets collectedChoices[index] to
\* that line's text and overwrites any earlier value of the index: the map
\* holds, per index, the entry of the latest numbered line seen since the
\* prompt started, and the map frozen at the close is that map
C28_LastWriteWinsPerIndex ==
  StartPositions # {} =>
    /\ Prompt.CollectedChoices = LatestEntries
    /\ ClosePositions # {} =>
         /\ dispatches # <<>>
         /\ dispatches[Len(dispatches)].choices = LatestEntries

\* a box with a numbered plan step and a choice of the same index has been
\* closed: the frozen entry of index 1 is the choice, the later of the two
C28_Witness ==
  /\ StartPositions # {} /\ ClosePositions # {}
  /\ \E p \in ChoicePositions : \E q \in ChoicePositions :
       p < q /\ IndexAt(p) = IndexAt(q) /\ EntryAt(p) # EntryAt(q)
  /\ dispatches # <<>>
  /\ dispatches[Len(dispatches)].choices["1"] = <<"1.", "Yes">>


\* the line that processLine is about to see is a prompt-start candidate
CandidateNext ==
  /\ running = "reading" /\ buffer # <<>>
  /\ ~shouldSkipLine(StripAnsi(Head(buffer)))
  /\ PermitMatch(Head(buffer))

\* C29: a prompt-start candidate that is suppressed, because its identifier
\* equals the stored one (ShouldProcessPrompt is not called) or because
\* ShouldProcessPrompt refuses it, leaves the prompt state as it was:
\* started, collectedChoices and the stored identifier keep their values
C29_SuppressedCandidateKeepsPrompt ==
  [][(CandidateNext /\ (~lastCheck'.called \/ ~lastCheck'.ok)) =>
       /\ Prompt'.Started = Prompt.Started
       /\ Prompt'.CollectedChoices = Prompt.CollectedChoices
       /\ Prompt'.LastLine = Prompt.LastLine
       /\ Prompt'.TriggerLine = Prompt.TriggerLine]_vars

\* a candidate has just been refused while a collection with two choices
\* was open, and the collection is still open with those choices
C29_Witness ==
  /\ lastCheck.called /\ ~lastCheck.ok
  /\ lastCheck.before.Started
  /\ DOMAIN lastCheck.before.CollectedChoices = {"1", "2"}
  /\ Prompt.Started
  /\ Prompt.CollectedChoices = lastCheck.before.CollectedChoices
  /\ Prompt.LastLine = lastCheck.before.LastLine


\* C30: the ledger's processed-prompt map is bounded by the maximum-entries
\* policy: after any sequence of MarkPromptProcessed calls it holds at most
\* 2 x MaxEntries entries
C30_SizeWithinTwiceMaxEntries ==
  Cardinality(DOMAIN processedPrompts) <= 2 * config.MaxEntries


\* ------------------------------------------------ the collector of main.go
\* choice lines of a menu that is printed without a box
PlainChoice2 == <<"2.", "Yes, and don't ask again">>

PlainChoice3 == <<"3.", "No, and tell Claude">>

\* a menu that ends with the line "Your choice:"
MenuYourChoice == <<PromptC, PlainChoice2, PlainChoice3, <<"Your choice:">>>>

\* a menu that ends with a blank line, and the text after it
MenuBlank ==
  <<PromptC, PlainChoice2, PlainChoice3, <<>>, <<"The command was automatically rejected.">>>>

\* what one Read delivers to the collector of main.go
LegacyChunks == {DialogBox2, MenuYourChoice, MenuBlank}

\* main.go processLine: the context is collected while no prompt is open,
\* and at most 10 lines are kept
LegacyCollectContext(ctx, cleanLine) ==
  IF ~Prompt.Started /\ ByteLen(TrimSpace(cleanLine)) > 0
     /\ (cleanLine = <<>> \/ Head(cleanLine) # "[DEBUG]")
  THEN LET c == Append(ctx, cleanLine)
       IN IF Len(c) > 10 THEN Tail(c) ELSE c
  ELSE ctx

\* main.go processLine: the identifier has no timestamp
LegacyContextIdentifier(ctx, line) ==
  <<SubSeq(ctx, IF Len(ctx) > 3 THEN Len(ctx) - 2 ELSE 1, Len(ctx)), StripAnsi(line)>>

\* main.go handleUserChoice: sendAutoApprove or showDialog, each a goroutine
LegacyHandleUserChoice(bestChoice, choices) ==
  LET mode == IF flags.autoApprove THEN "approve" ELSE "dialog"
  IN /\ tasks' = Append(tasks, NewTask(mode, bestChoice, choices, now))
     /\ dispatches' = Append(dispatches,
          [mode |-> mode, best |-> bestChoice, choices |-> choices,
           trigger |-> Prompt.TriggerLine, context |-> Prompt.Context])

\* main.go processChoice: the end of the choices is a blank line, a line
\* with the box-bottom glyph or a line with "Your choice:"
LegacyProcessChoice(line, cleanLine) ==
  LET choices == AddChoice(Prompt, line)
  IN IF TrimSpace(cleanLine) = <<>> \/ Contains(cleanLine, "BOX_BL")
        \/ Contains(cleanLine, "Your choice:")
     THEN /\ Prompt' = [Prompt EXCEPT !.CollectedChoices = choices, !.Started = FALSE]
          /\ \E bestChoice \in GetBestChoice(choices) :
               LegacyHandleUserChoice(bestChoice, choices)
     ELSE /\ Prompt' = [Prompt EXCEPT !.CollectedChoices = choices]
          /\ UNCHANGED <<tasks, dispatches>>

\* main.go processLine on a line that matches Permit and has no record mark
LegacyProcessPromptLine(line, ctx) ==
  LET id == LegacyContextIdentifier(ctx, line)
      r == ShouldProcessPromptResult(Prompt, line, now)
  IN /\ IF id # Prompt.LastLine
        THEN /\ lastCheck' = [called |-> TRUE, text |-> StripAnsi(line), time |-> now,
                              ok |-> r.ok, before |-> Prompt]
             /\ Prompt' = IF r.ok
                          THEN [Prompt EXCEPT !.Processed = r.Processed, !.LastLine = id,
                                              !.Started = TRUE,
                                              !.CollectedChoices = EmptyMap,
                                              !.TriggerLine = line]
                          ELSE [Prompt EXCEPT !.Processed = r.Processed]
        ELSE /\ lastCheck' = NoCheck
             /\ UNCHANGED Prompt
     /\ UNCHANGED <<tasks, dispatches>>

\* the read loop of main.go hands the next line to processLine
LegacyProcessLine ==
  /\ running = "reading"
  /\ buffer # <<>>
  /\ LET line == Head(buffer)
         cleanLine == StripAnsi(line)
         ctx == LegacyCollectContext(contextLines, cleanLine)
     IN /\ contextLines' = ctx
        /\ IF shouldSkipLine(cleanLine)
           THEN UNCHANGED <<Prompt, tasks, dispatches>> /\ lastCheck' = NoCheck
           ELSE IF PermitMatch(line) /\ ~Contains(line, "RECORD_MARK")
           THEN LegacyProcessPromptLine(line, ctx)
           ELSE IF Prompt.Started
           THEN LegacyProcessChoice(line, cleanLine) /\ lastCheck' = NoCheck
           ELSE UNCHANGED <<Prompt, tasks, dispatches>> /\ lastCheck' = NoCheck
  /\ buffer' = Tail(buffer)
  /\ UNCHANGED <<now, flags, running, reads, chunkLog, writes, cooldownStates,
                 processedPrompts, resets, armed, callVars>>

\* the read loop of main.go: one Read delivers a chunk of complete lines
LegacyRead == ReadChunkOf(LegacyChunks, MaxReads)

\* the read loop of main.go ends on any error of Read
LegacyEnd ==
  /\ running = "reading"
  /\ buffer = <<>>
  /\ \E err \in ReadErrors : running' = IF err = "EOF" THEN "eof" ELSE "error"
  /\ UNCHANGED <<now, flags, buffer, reads, contextLines, Prompt, tasks, writes,
                 cooldownStates, processedPrompts, resets, armed, dispatches,
                 lastCheck, chunkLog, callVars>>

NextLegacy == LegacyRead \/ LegacyProcessLine \/ LegacyEnd \/ Tick

\* main.go knows the flag auto-approve only
InitLegacy == Init /\ ~flags.autoReject /\ flags.autoRejectWait = 0

SpecLegacy == InitLegacy /\ [][NextLegacy]_vars

\* the line that the collector is about to see ends the choices: it is
\* blank, or has the box-bottom glyph, or has "Your choice:"
EndLineNext ==
  /\ running = "reading" /\ buffer # <<>> /\ Prompt.Started
  /\ LET cleanLine == StripAnsi(Head(buffer))
     IN \/ TrimSpace(cleanLine) = <<>>
        \/ Contains(cleanLine, "BOX_BL")
        \/ Contains(cleanLine, "Your choice:")

\* C31: in the collector of main.go the collection ends, with a dispatch,
\* when a blank line or a line with "Your choice:" arrives, as well as when
\* a box-closing line arrives
C31_LegacyEndsOnBlankOrYourChoice ==
  [][(EndLineNext /\ buffer' # buffer) =>
       /\ ~Prompt'.Started
       /\ Len(dispatches') = Len(dispatches) + 1]_vars


\* C32: a dispatch is triggered only by a line with the box-closing glyph
\* that arrives while started is true, and that line sets started to false;
\* a box-closing line received while idle changes nothing of the prompt
\* state and causes no dispatch, no goroutine and no write; so there are
\* never more dispatches than accepted prompt starts
C32_DispatchOnlyOnCloseWhileStarted ==
  /\ [][dispatches' # dispatches =>
          (ClosingLineNext /\ Prompt.Started /\ ~Prompt'.Started
           /\ SubSeq(dispatches', 1, Len(dispatches)) = dispatches)]_vars
  /\ [][(ClosingLineNext /\ ~Prompt.Started /\ buffer' = Tail(buffer)) =>
          (Prompt' = Prompt /\ dispatches' = dispatches /\ tasks' = tasks
           /\ writes' = writes)]_vars
  /\ [](Len(dispatches) <= Cardinality(StartPositions))

\* the box was read twice: its first close, while collecting, dispatched,
\* and its second close, while idle after the suppressed prompt, did not
C32_Witness ==
  /\ Len(chunkLog) = 2 /\ buffer = <<>>
  /\ chunkLog[1].chunk = DialogBox2 /\ chunkLog[1].ok
  /\ chunkLog[2].chunk = DialogBox2 /\ chunkLog[2].checked /\ ~chunkLog[2].ok
  /\ Len(dispatches) = 1 /\ ~Prompt.Started


\* the line that processLine is about to see is classified as Skip: it
\* starts with + or -, or has a decoration glyph or "Context:", or its
\* trimmed length is at most 10
SkipLineNext ==
  /\ running = "reading" /\ buffer # <<>>
  /\ LET cleanLine == StripAnsi(Head(buffer))
         t == TrimSpace(cleanLine)
     IN \/ (t # <<>> /\ Head(t) \in {"+ added line", "- removed line"})
        \/ ContainsAny(cleanLine, {"RESULT_MARK", "CHECKED", "Context:"})
        \/ ByteLen(t) <= 10

\* C33: a line classified as Skip never changes started or collectedChoices
\* and never triggers a dispatch, even while collecting and even if it has
\* a numbered choice or the box-closing glyph
C33_SkipLineChangesNothing ==
  [][(SkipLineNext /\ buffer' = Tail(buffer)) =>
       /\ Prompt' = Prompt
       /\ dispatches' = dispatches /\ tasks' = tasks /\ writes' = writes]_vars

\* the skipped choice lines and the skipped closes of the box have been
\* seen while collecting: the collection is open with choices 1 and 2 only
C33_Witness ==
  /\ Len(chunkLog) = 1 /\ chunkLog[1].chunk = SkipBox /\ chunkLog[1].ok
  /\ buffer = <<CloseLine>>
  /\ Prompt.Started /\ DOMAIN Prompt.CollectedChoices = {"1", "2"}
  /\ dispatches = <<>>


\* C34: when a new prompt start is accepted, collectedChoices is reset to
\* empty, so a frozen choice set never contains a choice collected before
\* the most recent accepted prompt start: every index of the map, and of
\* the map frozen at the close, comes from a numbered line seen after it
C34_AcceptedStartResetsChoices ==
  /\ [][(lastCheck'.called /\ lastCheck'.ok) =>
          (Prompt'.Started /\ Prompt'.CollectedChoices = EmptyMap)]_vars
  /\ [](StartPositions # {} =>
          /\ DOMAIN Prompt.CollectedChoices \subseteq {IndexAt(p) : p \in ChoicePositions}
          /\ ClosePositions # {} =>
               DOMAIN dispatches[Len(dispatches)].choices
                 \subseteq {IndexAt(p) : p \in ChoicePositions})

\* a box with three choices stayed open, the prompt of a box with two
\* choices was accepted after it, and the map frozen at its close has the
\* indices 1 and 2 only
C34_Witness ==
  /\ Len(chunkLog) = 2 /\ buffer = <<>>
  /\ chunkLog[1].chunk = OpenBox3 /\ chunkLog[1].ok
  /\ chunkLog[2].chunk = DialogBox2 /\ chunkLog[2].ok
  /\ Len(dispatches) = 1
  /\ DOMAIN dispatches[1].choices = {"1", "2"}


\* C35: for every non-empty choice map, selectBest returns an index that is
\* a key of that map
C35_BestIsKeyOfNonEmptyMap ==
  (selection.pc \in {"best", "done"} /\ DOMAIN selection.choices # {}) =>
    selection.best \in DOMAIN selection.choices


\* ------------------------------------------- the dialog and its buttons
\* a menu printed without a box above the input box: the line of choice 1
\* has 6 bytes
PlainMenuScreen ==
  <<PromptC, <<"1.", "Yes">>, PlainChoice2, PlainChoice3, <<>>,
    OpenLine, <<"BOX_V", ">", "PAD", "BOX_V">>, CloseLine>>

ButtonChunks == {DialogBox3, PlainMenuScreen}

RunReadButtons == ReadChunkOf(ButtonChunks, MaxPrompts)

\* a button label as the one string that Show is given
LabelString(label) == IF label = <<>> THEN "" ELSE label[1]

\* the permission callback is SimpleOSDialog.Show: the user clicks one of
\* the buttons shown, osascript prints its name and the parser answers its
\* position; or the dialog gives up and the answer is ""
ShowDialogClick(i) ==
  /\ IsTask(i) /\ tasks[i].kind = "dialog" /\ tasks[i].pc = "asked"
  /\ LET given == [k \in 1..Len(tasks[i].buttons) |-> LabelString(tasks[i].buttons[k])]
         buttons == IF given = <<>> THEN <<"OK">> ELSE given
     IN \/ \E k \in 1..Len(buttons) :
             LET r == IF Len(buttons) > 3
                      THEN parseChooseFromListResult(<<buttons[k]>>, buttons)
                      ELSE parseAppleScriptResult(
                             <<"button returned:", buttons[k], ",", "gave up:false">>,
                             buttons)
             IN tasks' = [tasks EXCEPT ![i].pc = "user", ![i].resp = r, ![i].got = r,
                                       ![i].clicked = <<buttons[k]>>]
        \/ tasks' = [tasks EXCEPT ![i].pc = "done"]
  /\ UNCHANGED <<driverVars, writes, cooldownStates, resets, armed>>

ButtonStep ==
  \E i \in 1..MaxPrompts : ShowDialogShow(i) \/ ShowDialogClick(i) \/ ShowDialogWrite(i)

NextButtons ==
  RunReadButtons \/ RunProcessLine \/ RunEnd \/ TaskTick \/ ButtonStep \/ CooldownReset

\* interactive mode: no mode flag is set
InitButtons == Init /\ flags = NoFlags

SpecButtons == InitButtons /\ [][NextButtons]_vars

\* the labels of the choices, in ascending order of their indices
RECURSIVE LabelsAscending(_, _)
LabelsAscending(choices, keys) ==
  IF keys = {} THEN <<>>
  ELSE <<ButtonText(choices[Lowest(keys)])>>
         \o LabelsAscending(choices, keys \ {Lowest(keys)})

\* C36: in interactive mode the index written to the child is the
\* collected-choice index of the button the user clicked: the buttons are
\* listed one per collected choice in ascending index order, so that button
\* position k stands for choice index k
C36_WrittenIndexIsClickedChoice ==
  \A i \in 1..Len(tasks) :
    tasks[i].kind = "dialog" =>
      /\ tasks[i].shown =>
           tasks[i].buttons = LabelsAscending(dispatches[i].choices,
                                              DOMAIN dispatches[i].choices)
      /\ \A w \in 1..Len(writes) :
           (writes[w].task = i /\ writes[w].what = "answer") =>
             /\ writes[w].text[1] \in DOMAIN dispatches[i].choices
             /\ ButtonText(dispatches[i].choices[writes[w].text[1]]) = tasks[i].clicked


\* C37: a cooldown armed by a dispatch stays in force until its own expiry
\* time: while the window of the latest handleDialogCooldown is running, the
\* channel "main_dialog" holds the state that call set, and the delayed
\* clear of an earlier call has not removed it
C37_CooldownOutlivesEarlierClear ==
  (armed # <<>> /\ now < armed[Len(armed)] + DialogCooldownMs) =>
    /\ "main_dialog" \in DOMAIN cooldownStates
    /\ cooldownStates["main_dialog"].JustShown
    /\ cooldownStates["main_dialog"].CooldownUntil = armed[Len(armed)] + DialogCooldownMs


\* the tokens of a numbered choice line, of the question line and of the
\* box border
ChoiceOrBoxTokens ==
  IndexTokens \cup {"Do you want to", "CURSOR"}
    \cup {"BOX_V", "BOX_H", "BOX_TL", "BOX_TR", "BOX_BL", "BOX_BR"}

\* C38: the auto-reject explanation message contains only command-content
\* lines taken from the captured context: it never includes a numbered
\* choice line, the question line or a box-border glyph
C38_RejectMessageHasNoDialogLines ==
  \A w \in 1..Len(writes) :
    writes[w].what = "msg" => ~ContainsAny(writes[w].text, ChoiceOrBoxTokens)


\* C39: once Close has been called on a manager with periodic cleanup, the
\* goroutine of periodicCleanup terminates in the end, and it runs no
\* cleanup from the call of Close on
C39_CloseEndsCleanup ==
  /\ (cleanup.stopCleanup = "closed") ~> (cleanup.pc = "done")
  /\ [](~cleanup.late)

====
